---- MODULE Spec2Model ----
(***************************************************************************)
(* bonbon: the JSON / BONJSON command-line converter, and j2b, its          *)
(* auto-detecting predecessor.  Bytes are the integers 0..255, a buffer is  *)
(* a sequence of bytes, and Go's 0-based indices are kept: data[i] in the   *)
(* source is data[i+1] here.                                                *)
(***************************************************************************)
EXTENDS Integers, Sequences, FiniteSets, TLC

VARIABLES
    pc,          \* position of the process: which step runs next
    opt,         \* main's flag variables (allowTrailing, skipBytes, ...)
    command,     \* args[0] after the flags
    outputPath,  \* convert's outputPath parameter
    inputJSON,   \* convert's inputJSON parameter
    outputJSON,  \* convert's outputJSON parameter
    data,        \* convert's data buffer
    value,       \* convert's decoded value
    byteCount,   \* convert's byteCount (dec.InputOffset())
    decodeErr,   \* convert's decodeErr ("" is nil)
    output,      \* convert's output buffer
    isJSON,      \* j2b: the result of detectJSON (false before it ran)
    fs,          \* the world outside: input file, destination, streams
    ret,         \* the error convert returns (kind "" is nil)
    nflags,      \* main: how many flag tokens the loop has consumed
    exitCode,    \* the process's exit status (-1 while it runs)
    steps        \* history: the steps that ran, in order

vars == <<pc, opt, command, outputPath, inputJSON, outputJSON, data, value,
          byteCount, decodeErr, output, isJSON, fs, ret, nflags, exitCode, steps>>

(***************************************************************************)
(* Byte classifier                                                         *)
(***************************************************************************)
\* a whitespace test that knows the space alone
isWhitespace_SpaceOnly(b) == b = 32

\* isWhitespace: ' ', '\t', '\n', '\r'
isWhitespace(b) == b = 32 \/ b = 9 \/ b = 10 \/ b = 13

\* isDigit: '0' <= b <= '9'
isDigit(b) == b >= 48 /\ b <= 57

\* the JSON start bytes without '-'
isValidJSONStart_NoMinus(b) ==
    b \in {123, 91, 34, 116, 102, 110, 48, 49, 50, 51, 52, 53, 54, 55, 56, 57}

\* isValidJSONStart: '{', '[', '"', 't', 'f', 'n', '-', digits
isValidJSONStart(b) ==
    b \in {123, 91, 34, 116, 102, 110, 45, 48, 49, 50, 51, 52, 53, 54, 55, 56, 57}

\* a continuation test that does not know the exponent markers
isJSONNumberOrDocContinuation_NoExp(b) ==
    b \in {48, 49, 50, 51, 52, 53, 54, 55, 56, 57, 46, 32, 9, 10, 13, 44, 93, 125}

\* isJSONNumberOrDocContinuation: digits, '.', 'e', 'E', whitespace, ',', ']', '}'
isJSONNumberOrDocContinuation(b) ==
    b \in {48, 49, 50, 51, 52, 53, 54, 55, 56, 57, 46, 101, 69, 32, 9, 10, 13, 44, 93, 125}

(***************************************************************************)
(* Format detector                                                         *)
(***************************************************************************)
\* no whitespace skipped
skipWhitespace_None(buf, start) == start

\* at most one byte of whitespace skipped
skipWhitespace_One(buf, start) ==
    IF start < Len(buf) /\ isWhitespace(buf[start + 1]) THEN start + 1 ELSE start

\* an object test that takes '"' alone, not '}'
looksLikeJSONObject_QuoteOnly(remaining) ==
    Len(remaining) > 0 /\ remaining[1] = 34

RECURSIVE skipWhitespace(_, _)
skipWhitespace(buf, start) ==
    IF start < Len(buf) /\ isWhitespace(buf[start + 1])
    THEN skipWhitespace(buf, start + 1)
    ELSE start

\* an object test that looks at no byte after '{'
looksLikeJSONObject_Any(remaining) == Len(remaining) > 0

looksLikeJSONObject(remaining) ==
    LET i == skipWhitespace(remaining, 0)
    IN  IF i >= Len(remaining) THEN FALSE
        ELSE remaining[i + 1] = 34 \/ remaining[i + 1] = 125

\* an array test that wants the buffer to end with ']'
looksLikeJSONArray_Closed(remaining) ==
    Len(remaining) > 0 /\ remaining[Len(remaining)] = 93

looksLikeJSONArray(remaining) ==
    LET i == skipWhitespace(remaining, 0)
    IN  IF i >= Len(remaining) THEN FALSE
        ELSE isValidJSONStart(remaining[i + 1]) \/ remaining[i + 1] = 93

detectJSON(buf) ==
    LET start == skipWhitespace(buf, 0)
    IN  IF start >= Len(buf) THEN TRUE
        ELSE LET first == buf[start + 1]
                 remaining == SubSeq(buf, start + 2, Len(buf))
             IN  IF first = 153 \/ first = 154 THEN FALSE
                 ELSE IF first = 102 THEN TRUE
                 ELSE IF ~isValidJSONStart(first) THEN FALSE
                 ELSE IF first = 116
                      THEN Len(remaining) >= 3 /\ remaining[1] = 114
                           /\ remaining[2] = 117 /\ remaining[3] = 101
                 ELSE IF first = 110
                      THEN Len(remaining) >= 3 /\ remaining[1] = 117
                           /\ remaining[2] = 108 /\ remaining[3] = 108
                 ELSE IF first = 123 THEN looksLikeJSONObject(remaining)
                 ELSE IF first = 91 THEN looksLikeJSONArray(remaining)
                 ELSE IF first = 34 THEN Len(remaining) > 0
                 ELSE IF first = 45
                      THEN Len(remaining) > 0 /\ isDigit(remaining[1])
                 ELSE IF isDigit(first)
                      THEN IF Len(remaining) = 0 THEN FALSE
                           ELSE isJSONNumberOrDocContinuation(remaining[1])
                 ELSE TRUE

\* the indexes (from 1) of the bytes skipWhitespace(buf, start) reads: every
\* whitespace byte it passes and the byte it stops at, if there is one
skipReads(buf, start) ==
    LET stop == skipWhitespace(buf, start)
    IN  {i \in (start + 1)..(stop + 1) : i <= Len(buf)}

\* the indexes (from 1) of the bytes detectJSON(buf) reads, with the
\* short-circuit of && and the len() tests that guard each read
detectReads(buf) ==
    LET start == skipWhitespace(buf, 0)
        lead == skipReads(buf, 0)
    IN  IF start >= Len(buf) THEN lead
        ELSE LET first == buf[start + 1]
                 remaining == SubSeq(buf, start + 2, Len(buf))
                 literal(b1, b2) ==
                     IF Len(remaining) < 3 THEN {}
                     ELSE {start + 2}
                          \cup (IF remaining[1] = b1 THEN {start + 3} ELSE {})
                          \cup (IF remaining[1] = b1 /\ remaining[2] = b2 THEN {start + 4} ELSE {})
             IN  IF first = 153 \/ first = 154 \/ first = 102 \/ ~isValidJSONStart(first)
                 THEN lead
                 ELSE IF first = 116 THEN lead \cup literal(114, 117)
                 ELSE IF first = 110 THEN lead \cup literal(117, 108)
                 ELSE IF first = 123 \/ first = 91
                      THEN lead \cup {start + 1 + i : i \in skipReads(remaining, 0)}
                 ELSE IF first = 34 THEN lead
                 ELSE lead \cup (IF Len(remaining) > 0 THEN {start + 2} ELSE {})

(***************************************************************************)
(* Values: what Decode and json.Unmarshal store in a Go `any`.              *)
(*   nil, bool, integer, non-finite float, string, []any, map[string]any.   *)
(* A Go map has no order of its own: it is kept here sorted by key, which   *)
(* is also the order json.MarshalIndent writes its keys in.                 *)
(***************************************************************************)
NilV == [k |-> "null"]
BoolV(b) == [k |-> "bool", b |-> b]
IntV(n) == [k |-> "int", n |-> n]
FloatV(f, bits) == [k |-> "float", f |-> f, bits |-> bits]
StrV(s) == [k |-> "str", s |-> s]
ArrV(e) == [k |-> "arr", e |-> e]
ObjV(m) == [k |-> "obj", m |-> m]
\* an integer of three or more bytes: its type code and its bytes kept,
\* little-endian as they stand in the document
BigV(c, bs) == [k |-> "bigint", code |-> c, bytes |-> bs]

RECURSIVE SeqLess(_, _)
SeqLess(a, b) ==
    IF Len(a) = 0 THEN Len(b) > 0
    ELSE IF Len(b) = 0 THEN FALSE
    ELSE IF a[1] # b[1] THEN a[1] < b[1]
    ELSE SeqLess(Tail(a), Tail(b))

MapHas(m, key) == \E i \in 1..Len(m) : m[i].key = key

\* m[key] = val on a Go map
MapSet(m, key, val) ==
    IF MapHas(m, key)
    THEN [i \in 1..Len(m) |-> IF m[i].key = key THEN [key |-> key, val |-> val] ELSE m[i]]
    ELSE LET n == Cardinality({i \in 1..Len(m) : SeqLess(m[i].key, key)})
         IN  SubSeq(m, 1, n) \o <<[key |-> key, val |-> val]>> \o SubSeq(m, n + 1, Len(m))

(***************************************************************************)
(* The BONJSON codec (github.com/kstenerud/go-bonjson), as the repository   *)
(* relies on it: its type codes are those named in detectJSON's comments    *)
(* and in the test vectors of test_cli.sh and the detector's unit tests.    *)
(***************************************************************************)
\* a decoder that keeps the last value whatever the mode
DupAction_AlwaysLast(mode) == "last"

\* the switch on dupKeyMode: what the decoder does with a repeated key
\* (DupKeyKeepFirst, DupKeyKeepLast, or the decoder's default: reject)
DupAction(mode) ==
    IF mode = "keepfirst" THEN "first"
    ELSE IF mode = "keeplast" THEN "last"
    ELSE "reject"

\* DecodeOptions: the decoder's modes as convert sets them
DecOpts(nul, dup, utf8, nan) ==
    [allowNUL |-> nul, dupKeyMode |-> dup, utf8Mode |-> utf8, nanInfMode |-> nan]

\* the 8 payload bytes of the non-finite float64 values (little-endian)
NaNBits == <<1, 0, 0, 0, 0, 0, 248, 127>>
PosInfBits == <<0, 0, 0, 0, 0, 0, 240, 127>>
NegInfBits == <<0, 0, 0, 0, 0, 0, 240, 255>>

FloatName(bs) ==
    IF bs = NaNBits THEN "NaN"
    ELSE IF bs = PosInfBits THEN "Infinity"
    ELSE IF bs = NegInfBits THEN "-Infinity"
    ELSE "finite"

AsciiOf(name) ==
    IF name = "NaN" THEN <<78, 97, 78>>
    ELSE IF name = "Infinity" THEN <<73, 110, 102, 105, 110, 105, 116, 121>>
    ELSE <<45, 73, 110, 102, 105, 110, 105, 116, 121>>

\* a string's bytes under the invalid-UTF-8 mode; the model's strings are
\* ASCII and U+FFFD (EF BF BD), so any other byte >= 0x80 is an invalid
\* sequence of length one
RECURSIVE InvalidUTF8(_)
InvalidUTF8(bs) ==
    IF Len(bs) = 0 THEN FALSE
    ELSE IF Len(bs) >= 3 /\ SubSeq(bs, 1, 3) = <<239, 191, 189>>
    THEN InvalidUTF8(SubSeq(bs, 4, Len(bs)))
    ELSE bs[1] >= 128 \/ InvalidUTF8(Tail(bs))

RECURSIVE FixUTF8(_, _)
FixUTF8(bs, mode) ==
    IF Len(bs) = 0 THEN <<>>
    ELSE IF Len(bs) >= 3 /\ SubSeq(bs, 1, 3) = <<239, 191, 189>>
    THEN <<239, 191, 189>> \o FixUTF8(SubSeq(bs, 4, Len(bs)), mode)
    ELSE IF bs[1] < 128 THEN <<bs[1]>> \o FixUTF8(Tail(bs), mode)
    ELSE IF mode = "replace" THEN <<239, 191, 189>> \o FixUTF8(Tail(bs), mode)
    ELSE IF mode = "delete" THEN FixUTF8(Tail(bs), mode)
    ELSE <<bs[1]>> \o FixUTF8(Tail(bs), mode)

\* a short string at offset i (type code 0x80 + length)
DecodeString(buf, i, o) ==
    LET n == buf[i + 1] - 128
        bs == SubSeq(buf, i + 2, i + 1 + n)
    IN  IF i + 1 + n > Len(buf)
        THEN [val |-> NilV, has |-> FALSE, pos |-> Len(buf), err |-> "truncated"]
        ELSE IF ~o.allowNUL /\ (\E j \in 1..n : bs[j] = 0)
        THEN [val |-> NilV, has |-> FALSE, pos |-> i + 1 + n, err |-> "nul"]
        ELSE IF o.utf8Mode \notin {"replace", "delete", "ignore"}
                /\ InvalidUTF8(bs)
        THEN [val |-> NilV, has |-> FALSE, pos |-> i + 1 + n, err |-> "utf8"]
        ELSE [val |-> StrV(FixUTF8(bs, o.utf8Mode)), has |-> TRUE,
              pos |-> i + 1 + n, err |-> ""]

RECURSIVE DecodeValue(_, _, _)
RECURSIVE DecodeArray(_, _, _, _)
RECURSIVE DecodeObject(_, _, _, _)

\* one value at offset i: [val, has, pos, err]; err = "" is success, and on
\* an error val is what was decoded before it (has: there is such a value)
DecodeValue(buf, i, o) ==
    IF i >= Len(buf)
    THEN [val |-> NilV, has |-> FALSE, pos |-> i, err |-> "truncated"]
    ELSE LET c == buf[i + 1]
         IN  IF c <= 100 THEN [val |-> IntV(c), has |-> TRUE, pos |-> i + 1, err |-> ""]
             ELSE IF c >= 156 THEN [val |-> IntV(c - 256), has |-> TRUE, pos |-> i + 1, err |-> ""]
             ELSE IF c = 109 THEN [val |-> NilV, has |-> TRUE, pos |-> i + 1, err |-> ""]
             ELSE IF c = 110 THEN [val |-> BoolV(FALSE), has |-> TRUE, pos |-> i + 1, err |-> ""]
             ELSE IF c = 111 THEN [val |-> BoolV(TRUE), has |-> TRUE, pos |-> i + 1, err |-> ""]
             ELSE IF c >= 128 /\ c <= 143 THEN DecodeString(buf, i, o)
             ELSE IF c = 153 THEN DecodeArray(buf, i + 1, o, <<>>)
             ELSE IF c = 154 THEN DecodeObject(buf, i + 1, o, <<>>)
             ELSE IF c >= 112 /\ c <= 127
                  THEN LET n == (c % 8) + 1
                       IN  IF i + 1 + n > Len(buf)
                           THEN [val |-> NilV, has |-> FALSE, pos |-> Len(buf), err |-> "truncated"]
                           ELSE IF n = 1
                           THEN [val |-> IntV(IF c >= 120 /\ buf[i + 2] >= 128
                                              THEN buf[i + 2] - 256 ELSE buf[i + 2]),
                                 has |-> TRUE, pos |-> i + 2, err |-> ""]
                           ELSE IF n = 2
                           THEN LET u == buf[i + 2] + 256 * buf[i + 3]
                                IN  [val |-> IntV(IF c >= 120 /\ u >= 32768 THEN u - 65536 ELSE u),
                                     has |-> TRUE, pos |-> i + 3, err |-> ""]
                           ELSE [val |-> BigV(c, SubSeq(buf, i + 2, i + 1 + n)), has |-> TRUE,
                                 pos |-> i + 1 + n, err |-> ""]
             ELSE IF c = 108
                  THEN IF i + 9 > Len(buf)
                       THEN [val |-> NilV, has |-> FALSE, pos |-> Len(buf), err |-> "truncated"]
                       ELSE LET bits == SubSeq(buf, i + 2, i + 9)
                                f == FloatName(bits)
                            IN  IF f = "finite" \/ o.nanInfMode = "allow"
                                THEN [val |-> FloatV(f, bits), has |-> TRUE, pos |-> i + 9, err |-> ""]
                                ELSE IF o.nanInfMode = "stringify"
                                THEN [val |-> StrV(AsciiOf(f)), has |-> TRUE, pos |-> i + 9, err |-> ""]
                                ELSE [val |-> NilV, has |-> FALSE, pos |-> i + 9, err |-> "nonfinite"]
             ELSE [val |-> NilV, has |-> FALSE, pos |-> i + 1, err |-> "malformed"]

\* the elements of an array up to its end marker 0x9b
DecodeArray(buf, i, o, acc) ==
    IF i >= Len(buf)
    THEN [val |-> ArrV(acc), has |-> TRUE, pos |-> i, err |-> "truncated"]
    ELSE IF buf[i + 1] = 155
    THEN [val |-> ArrV(acc), has |-> TRUE, pos |-> i + 1, err |-> ""]
    ELSE LET r == DecodeValue(buf, i, o)
         IN  IF r.err # ""
             THEN [val |-> ArrV(IF r.has THEN Append(acc, r.val) ELSE acc),
                   has |-> TRUE, pos |-> r.pos, err |-> r.err]
             ELSE DecodeArray(buf, r.pos, o, Append(acc, r.val))

\* the members of an object up to its end marker 0x9b
DecodeObject(buf, i, o, acc) ==
    IF i >= Len(buf)
    THEN [val |-> ObjV(acc), has |-> TRUE, pos |-> i, err |-> "truncated"]
    ELSE IF buf[i + 1] = 155
    THEN [val |-> ObjV(acc), has |-> TRUE, pos |-> i + 1, err |-> ""]
    ELSE IF ~(buf[i + 1] >= 128 /\ buf[i + 1] <= 143)
    THEN [val |-> ObjV(acc), has |-> TRUE, pos |-> i + 1, err |-> "malformed"]
    ELSE LET kr == DecodeString(buf, i, o)
         IN  IF kr.err # ""
             THEN [val |-> ObjV(acc), has |-> TRUE, pos |-> kr.pos, err |-> kr.err]
             ELSE LET key == kr.val.s
                      dup == MapHas(acc, key)
                  IN  IF dup /\ DupAction(o.dupKeyMode) = "reject"
                      THEN [val |-> ObjV(acc), has |-> TRUE, pos |-> kr.pos, err |-> "duplicate"]
                      ELSE LET r == DecodeValue(buf, kr.pos, o)
                               keep == dup /\ DupAction(o.dupKeyMode) = "first"
                           IN  IF r.err # ""
                               THEN [val |-> ObjV(IF r.has /\ ~keep
                                                  THEN MapSet(acc, key, r.val) ELSE acc),
                                     has |-> TRUE, pos |-> r.pos, err |-> r.err]
                               ELSE DecodeObject(buf, r.pos, o,
                                        IF keep THEN acc ELSE MapSet(acc, key, r.val))

\* dec.Decode(&value) followed by dec.InputOffset(): value stays nil when
\* nothing was decoded
Decode(buf, o) ==
    LET r == DecodeValue(buf, 0, o)
    IN  [value |-> IF r.has THEN r.val ELSE NilV, byteCount |-> r.pos, err |-> r.err]


(***************************************************************************)
(* Encoders                                                                *)
(***************************************************************************)
RECURSIVE Digits(_)
Digits(n) == IF n < 10 THEN <<48 + n>> ELSE Digits(n \div 10) \o <<48 + (n % 10)>>

\* a number as encoding/json writes it (the model's numbers are integers)
ItoA(n) == IF n < 0 THEN <<45>> \o Digits(-n) ELSE Digits(n)

HexDigit(n) == IF n < 10 THEN 48 + n ELSE 87 + n

\* encoding/json's string escaping: quote, backslash, control bytes, the
\* HTML-unsafe bytes, and invalid UTF-8 (written as the escape of U+FFFD)
RECURSIVE EscapeString(_)
EscapeString(bs) ==
    IF Len(bs) = 0 THEN <<>>
    ELSE IF Len(bs) >= 3 /\ SubSeq(bs, 1, 3) = <<239, 191, 189>>
    THEN <<239, 191, 189>> \o EscapeString(SubSeq(bs, 4, Len(bs)))
    ELSE LET b == bs[1]
             e == IF b = 34 THEN <<92, 34>>
                  ELSE IF b = 92 THEN <<92, 92>>
                  ELSE IF b = 10 THEN <<92, 110>>
                  ELSE IF b = 13 THEN <<92, 114>>
                  ELSE IF b = 9 THEN <<92, 116>>
                  ELSE IF b < 32 \/ b \in {60, 62, 38}
                  THEN <<92, 117, 48, 48, HexDigit(b \div 16), HexDigit(b % 16)>>
                  ELSE IF b >= 128 THEN <<92, 117, 102, 102, 102, 100>>
                  ELSE <<b>>
         IN  e \o EscapeString(Tail(bs))

Quoted(bs) == <<34>> \o EscapeString(bs) \o <<34>>

\* decimal digits, lowest first, of 256 * (the number d writes) + c
RECURSIVE MulAdd(_, _)
MulAdd(d, c) ==
    IF Len(d) = 0
    THEN (IF c = 0 THEN <<>> ELSE <<c % 10>> \o MulAdd(<<>>, c \div 10))
    ELSE LET t == d[1] * 256 + c
         IN  <<t % 10>> \o MulAdd(Tail(d), t \div 10)

\* the decimal digits, lowest first, of little-endian bytes
RECURSIVE DecimalLE(_)
DecimalLE(bs) ==
    IF Len(bs) = 0 THEN <<>> ELSE MulAdd(DecimalLE(Tail(bs)), bs[1])

\* the two's complement of little-endian bytes; carry is 1 at the start
RECURSIVE Negate(_, _)
Negate(bs, carry) ==
    IF Len(bs) = 0 THEN <<>>
    ELSE LET t == (255 - bs[1]) + carry
         IN  <<t % 256>> \o Negate(Tail(bs), t \div 256)

RECURSIVE Reverse(_)
Reverse(q) == IF Len(q) = 0 THEN <<>> ELSE Reverse(Tail(q)) \o <<q[1]>>

\* the decimal text of an integer of three or more bytes
BigText(v) ==
    LET neg == v.code >= 120 /\ v.bytes[Len(v.bytes)] >= 128
        mag == DecimalLE(IF neg THEN Negate(v.bytes, 1) ELSE v.bytes)
        ds == IF Len(mag) = 0 THEN <<0>> ELSE Reverse(mag)
    IN  (IF neg THEN <<45>> ELSE <<>>) \o [i \in 1..Len(ds) |-> 48 + ds[i]]

RECURSIVE Indent(_)
Indent(d) == IF d = 0 THEN <<>> ELSE <<32, 32, 32, 32>> \o Indent(d - 1)

RECURSIVE JSONErr(_)
\* the error json.MarshalIndent returns for a value ("" is nil)
JSONErr(v) ==
    IF v.k = "float" THEN (IF v.f = "finite" THEN "unmodelled" ELSE "unsupported value")
    ELSE IF v.k = "arr"
    THEN IF \E i \in 1..Len(v.e) : JSONErr(v.e[i]) # ""
         THEN JSONErr(v.e[CHOOSE i \in 1..Len(v.e) :
                  JSONErr(v.e[i]) # "" /\ \A j \in 1..(i - 1) : JSONErr(v.e[j]) = ""])
         ELSE ""
    ELSE IF v.k = "obj"
    THEN IF \E i \in 1..Len(v.m) : JSONErr(v.m[i].val) # ""
         THEN JSONErr(v.m[CHOOSE i \in 1..Len(v.m) :
                  JSONErr(v.m[i].val) # "" /\ \A j \in 1..(i - 1) : JSONErr(v.m[j].val) = ""].val)
         ELSE ""
    ELSE ""

RECURSIVE JSONText(_, _)
RECURSIVE JSONElems(_, _, _)
RECURSIVE JSONMembers(_, _, _)
\* the text of an encodable value at nesting depth d, indent "    "
JSONText(v, d) ==
    IF v.k = "null" THEN <<110, 117, 108, 108>>
    ELSE IF v.k = "bool"
    THEN (IF v.b THEN <<116, 114, 117, 101>> ELSE <<102, 97, 108, 115, 101>>)
    ELSE IF v.k = "int" THEN ItoA(v.n)
    ELSE IF v.k = "bigint" THEN BigText(v)
    ELSE IF v.k = "str" THEN Quoted(v.s)
    ELSE IF v.k = "arr"
    THEN IF Len(v.e) = 0 THEN <<91, 93>>
         ELSE <<91, 10>> \o JSONElems(v.e, 1, d + 1) \o <<10>> \o Indent(d) \o <<93>>
    ELSE IF v.k = "obj"
    THEN IF Len(v.m) = 0 THEN <<123, 125>>
         ELSE <<123, 10>> \o JSONMembers(v.m, 1, d + 1) \o <<10>> \o Indent(d) \o <<125>>
    ELSE <<>>

JSONElems(e, i, d) ==
    Indent(d) \o JSONText(e[i], d)
        \o (IF i = Len(e) THEN <<>> ELSE <<44, 10>> \o JSONElems(e, i + 1, d))

JSONMembers(m, i, d) ==
    Indent(d) \o Quoted(m[i].key) \o <<58, 32>> \o JSONText(m[i].val, d)
        \o (IF i = Len(m) THEN <<>> ELSE <<44, 10>> \o JSONMembers(m, i + 1, d))

\* json.MarshalIndent(value, "", "    "): [out, err]
MarshalIndent(v) ==
    IF JSONErr(v) # "" THEN [out |-> <<>>, err |-> JSONErr(v)]
    ELSE [out |-> JSONText(v, 0), err |-> ""]

RECURSIVE BONErr(_, _)
\* the error enc.Encode returns for a value under the encoder's
\* NaN/Infinity mode ("" is nil)
BONErr(v, nan) ==
    IF v.k = "float"
    THEN (IF v.f = "finite" \/ nan \in {"allow", "stringify"} THEN "" ELSE "nonfinite")
    ELSE IF v.k = "int" THEN (IF v.n >= -32768 /\ v.n <= 65535 THEN "" ELSE "unmodelled")
    ELSE IF v.k = "str" THEN (IF Len(v.s) <= 15 THEN "" ELSE "unmodelled")
    ELSE IF v.k = "arr"
    THEN IF \E i \in 1..Len(v.e) : BONErr(v.e[i], nan) # ""
         THEN BONErr(v.e[CHOOSE i \in 1..Len(v.e) :
                  BONErr(v.e[i], nan) # "" /\ \A j \in 1..(i - 1) : BONErr(v.e[j], nan) = ""], nan)
         ELSE ""
    ELSE IF v.k = "obj"
    THEN IF \E i \in 1..Len(v.m) : BONErr(v.m[i].val, nan) # ""
         THEN BONErr(v.m[CHOOSE i \in 1..Len(v.m) :
                  BONErr(v.m[i].val, nan) # ""
                  /\ \A j \in 1..(i - 1) : BONErr(v.m[j].val, nan) = ""].val, nan)
         ELSE ""
    ELSE ""

ShortString(bs) == <<128 + Len(bs)>> \o bs

\* an integer in the smallest encoding that holds it
EncodeInt(n) ==
    IF n >= 0 /\ n <= 100 THEN <<n>>
    ELSE IF n < 0 /\ n >= -100 THEN <<256 + n>>
    ELSE IF n > 0 /\ n <= 255 THEN <<112, n>>
    ELSE IF n < 0 /\ n >= -128 THEN <<120, 256 + n>>
    ELSE IF n > 0 THEN <<113, n % 256, n \div 256>>
    ELSE <<121, (65536 + n) % 256, (65536 + n) \div 256>>

RECURSIVE BONBytes(_, _)
RECURSIVE BONElems(_, _, _)
RECURSIVE BONMembers(_, _, _)
BONBytes(v, nan) ==
    IF v.k = "null" THEN <<109>>
    ELSE IF v.k = "bool" THEN (IF v.b THEN <<111>> ELSE <<110>>)
    ELSE IF v.k = "int" THEN EncodeInt(v.n)
    ELSE IF v.k = "bigint" THEN <<v.code>> \o v.bytes
    ELSE IF v.k = "float"
    THEN (IF v.f # "finite" /\ nan = "stringify" THEN ShortString(AsciiOf(v.f))
          ELSE <<108>> \o v.bits)
    ELSE IF v.k = "str" THEN ShortString(v.s)
    ELSE IF v.k = "arr" THEN <<153>> \o BONElems(v.e, 1, nan) \o <<155>>
    ELSE IF v.k = "obj" THEN <<154>> \o BONMembers(v.m, 1, nan) \o <<155>>
    ELSE <<>>

BONElems(e, i, nan) ==
    IF i > Len(e) THEN <<>> ELSE BONBytes(e[i], nan) \o BONElems(e, i + 1, nan)

BONMembers(m, i, nan) ==
    IF i > Len(m) THEN <<>>
    ELSE ShortString(m[i].key) \o BONBytes(m[i].val, nan) \o BONMembers(m, i + 1, nan)

\* enc.Encode(value) into a bytes.Buffer: [out, err]
Encode(v, nan) ==
    IF BONErr(v, nan) # "" THEN [out |-> <<>>, err |-> BONErr(v, nan)]
    ELSE [out |-> BONBytes(v, nan), err |-> ""]


(***************************************************************************)
(* json.Unmarshal(data, &value) into an `any`.  Numbers are the integers   *)
(* (a fraction, an exponent, "-0", a string escape or a non-ASCII byte is   *)
(* outside the model and reported as "unmodelled"; no input has one).       *)
(***************************************************************************)
JFail(i, e) == [val |-> NilV, pos |-> i, err |-> e]
JOk(v, i) == [val |-> v, pos |-> i, err |-> ""]

JLit(buf, i, lit) ==
    i + Len(lit) <= Len(buf) /\ SubSeq(buf, i + 1, i + Len(lit)) = lit

RECURSIVE ScanDigits(_, _)
ScanDigits(buf, i) ==
    IF i < Len(buf) /\ isDigit(buf[i + 1]) THEN ScanDigits(buf, i + 1) ELSE i

RECURSIVE NumVal(_, _, _)
NumVal(buf, i, end) ==
    IF end = i THEN 0 ELSE NumVal(buf, i, end - 1) * 10 + (buf[end] - 48)

JNumber(buf, i) ==
    LET neg == buf[i + 1] = 45
        j == IF neg THEN i + 1 ELSE i
    IN  IF j >= Len(buf) \/ ~isDigit(buf[j + 1]) THEN JFail(j, "syntax")
        ELSE LET end == IF buf[j + 1] = 48 THEN j + 1 ELSE ScanDigits(buf, j)
                 n == NumVal(buf, j, end)
             IN  IF (end < Len(buf) /\ buf[end + 1] \in {46, 101, 69}) \/ (neg /\ n = 0)
                     \/ end - j > 4
                 THEN JFail(end, "unmodelled")
                 ELSE JOk(IntV(IF neg THEN -n ELSE n), end)

\* the offset of the quote closing the string whose bytes start at i;
\* -1: the string is invalid or unterminated, -2: outside the model
RECURSIVE ScanStr(_, _)
ScanStr(buf, i) ==
    IF i >= Len(buf) THEN -1
    ELSE IF buf[i + 1] = 34 THEN i
    ELSE IF buf[i + 1] < 32 THEN -1
    ELSE IF buf[i + 1] = 92 \/ buf[i + 1] >= 128 THEN -2
    ELSE ScanStr(buf, i + 1)

JString(buf, i) ==
    LET c == ScanStr(buf, i + 1)
    IN  IF c = -1 THEN JFail(i, "syntax")
        ELSE IF c = -2 THEN JFail(i, "unmodelled")
        ELSE JOk(StrV(SubSeq(buf, i + 2, c)), c + 1)

RECURSIVE JValue(_, _)
RECURSIVE JArray(_, _, _)
RECURSIVE JObject(_, _, _)
\* one value whose first byte is at offset i
JValue(buf, i) ==
    IF i >= Len(buf) THEN JFail(i, "syntax")
    ELSE LET c == buf[i + 1]
         IN  IF c = 110 THEN (IF JLit(buf, i, <<110, 117, 108, 108>>)
                              THEN JOk(NilV, i + 4) ELSE JFail(i, "syntax"))
             ELSE IF c = 116 THEN (IF JLit(buf, i, <<116, 114, 117, 101>>)
                                   THEN JOk(BoolV(TRUE), i + 4) ELSE JFail(i, "syntax"))
             ELSE IF c = 102 THEN (IF JLit(buf, i, <<102, 97, 108, 115, 101>>)
                                   THEN JOk(BoolV(FALSE), i + 5) ELSE JFail(i, "syntax"))
             ELSE IF c = 34 THEN JString(buf, i)
             ELSE IF c = 45 \/ isDigit(c) THEN JNumber(buf, i)
             ELSE IF c = 91
                  THEN LET j == skipWhitespace(buf, i + 1)
                       IN  IF j < Len(buf) /\ buf[j + 1] = 93 THEN JOk(ArrV(<<>>), j + 1)
                           ELSE JArray(buf, j, <<>>)
             ELSE IF c = 123
                  THEN LET j == skipWhitespace(buf, i + 1)
                       IN  IF j < Len(buf) /\ buf[j + 1] = 125 THEN JOk(ObjV(<<>>), j + 1)
                           ELSE JObject(buf, j, <<>>)
             ELSE JFail(i, "syntax")

\* the elements of an array, the first at offset i, up to its ']'
JArray(buf, i, acc) ==
    LET r == JValue(buf, i)
        j == skipWhitespace(buf, r.pos)
    IN  IF r.err # "" THEN r
        ELSE IF j >= Len(buf) THEN JFail(j, "syntax")
        ELSE IF buf[j + 1] = 93 THEN JOk(ArrV(Append(acc, r.val)), j + 1)
        ELSE IF buf[j + 1] = 44
        THEN JArray(buf, skipWhitespace(buf, j + 1), Append(acc, r.val))
        ELSE JFail(j, "syntax")

\* the members of an object, the first key at offset i, up to its '}';
\* a repeated key overwrites (m[key] = val)
JObject(buf, i, acc) ==
    IF i >= Len(buf) \/ buf[i + 1] # 34 THEN JFail(i, "syntax")
    ELSE LET kr == JString(buf, i)
             c == skipWhitespace(buf, kr.pos)
         IN  IF kr.err # "" THEN kr
             ELSE IF c >= Len(buf) \/ buf[c + 1] # 58 THEN JFail(c, "syntax")
             ELSE LET r == JValue(buf, skipWhitespace(buf, c + 1))
                      j == skipWhitespace(buf, r.pos)
                      m == MapSet(acc, kr.val.s, r.val)
                  IN  IF r.err # "" THEN r
                      ELSE IF j >= Len(buf) THEN JFail(j, "syntax")
                      ELSE IF buf[j + 1] = 125 THEN JOk(ObjV(m), j + 1)
                      ELSE IF buf[j + 1] = 44
                      THEN JObject(buf, skipWhitespace(buf, j + 1), m)
                      ELSE JFail(j, "syntax")

\* json.Unmarshal: [value, err]; value is left nil on an error
Unmarshal(buf) ==
    LET r == JValue(buf, skipWhitespace(buf, 0))
    IN  IF r.err # "" THEN [value |-> NilV, err |-> r.err]
        ELSE IF skipWhitespace(buf, r.pos) < Len(buf) THEN [value |-> NilV, err |-> "syntax"]
        ELSE [value |-> r.val, err |-> ""]


(***************************************************************************)
(* The world outside the process                                           *)
(***************************************************************************)
\* bounds of the model
MaxSkip == 2
MaxTrail == 2
MaxElems == 2
MaxFlags == 2

NoErr == [kind |-> "", cause |-> ""]
Err(kind, cause) == [kind |-> kind, cause |-> cause]

AbsentFile == [exists |-> FALSE, content |-> <<>>]
\* a destination left by an earlier run: "old"
OldFile == [exists |-> TRUE, content |-> <<111, 108, 100>>]

Line(kind, n, msg) == [kind |-> kind, n |-> n, msg |-> msg]

RECURSIVE Rep(_, _)
Rep(b, n) == IF n = 0 THEN <<>> ELSE <<b>> \o Rep(b, n - 1)

\* well-formed BONJSON documents
BinScalars == {<<1>>, <<111>>, <<109>>, <<129, 97>>}
BinArrays ==
    {<<153>> \o Rep(1, n) \o <<155>> : n \in 0..MaxElems}
        \cup {<<153, 1, 129, 97, 155>>, <<153, 153, 1, 155, 111, 155>>}
BinObjects ==
    {<<154, 155>>, <<154, 129, 97, 1, 155>>,
     <<154, 129, 98, 1, 129, 97, 153, 111, 155, 155>>}
\* well-formed only under a mode flag: a repeated key (twice), NaN, +Infinity in an
\* array, a NUL and an invalid UTF-8 byte in a string
BinModal ==
    {<<154, 129, 97, 1, 129, 97, 2, 155>>,
     <<154, 129, 97, 1, 129, 98, 3, 129, 97, 2, 155>>, <<108>> \o NaNBits,
     <<153, 1, 108>> \o PosInfBits \o <<155>>, <<131, 97, 0, 98>>, <<131, 97, 255, 98>>}
BinDocs == BinScalars \cup BinArrays \cup BinObjects \cup BinModal

\* well-formed JSON documents: 1  -12  true  null  "a"  []  [1, "a"]
\* {"a":1}  {"b":1,"a":[true]}  {"a":1,"a":2}  {"b":{"b":1},"c":["c","a"]}
JSONDocs ==
    {<<49>>, <<45, 49, 50>>, <<116, 114, 117, 101>>, <<110, 117, 108, 108>>,
     <<34, 97, 34>>, <<91, 93>>, <<32, 91, 49, 44, 32, 34, 97, 34, 93, 10>>,
     <<123, 34, 97, 34, 58, 49, 125>>,
     <<123, 34, 98, 34, 58, 49, 44, 34, 97, 34, 58, 91, 116, 114, 117, 101, 93, 125>>,
     <<123, 34, 97, 34, 58, 49, 44, 34, 97, 34, 58, 50, 125>>,
     <<123, 34, 98, 34, 58, 123, 34, 98, 34, 58, 49, 125, 44, 34, 99, 34, 58, 91, 34, 99,
       34, 44, 34, 97, 34, 93, 125>>}
\* malformed JSON: {"a": }   [1,   tru   1 2
BadJSON ==
    {<<123, 34, 97, 34, 58, 32, 125>>, <<91, 49, 44>>, <<116, 114, 117>>, <<49, 32, 50>>}

\* damaged documents: cut short, and followed by extra bytes ('g', or
\* another document)
Truncated ==
    UNION {{SubSeq(d, 1, n) : n \in 1..(Len(d) - 1)} :
               d \in BinArrays \cup BinObjects \cup BinModal} \ BinDocs
Trailing == {d \o Rep(103, n) : d \in BinDocs, n \in 1..MaxTrail}
                \cup {d \o <<1>> : d \in BinScalars}
\* a header of k bytes 'H' before a document, and before an array cut short
Headed == {Rep(72, k) \o d : d \in BinDocs \cup JSONDocs \cup {<<153, 1>>}, k \in 1..MaxSkip}

Files == {<<>>} \cup BinDocs \cup JSONDocs \cup BadJSON \cup Truncated
             \cup Trailing \cup Headed

(***************************************************************************)
(* main: the flag loop (lines 52-121)                                      *)
(***************************************************************************)
Opt(t, s, e, n, d, u, f) ==
    [allowTrailing |-> t, skipBytes |-> s, printEndOffset |-> e, allowNUL |-> n,
     dupKeyMode |-> d, utf8Mode |-> u, nanInfMode |-> f]

\* the flag variables as declared: zero values
NoFlags == Opt(FALSE, 0, FALSE, FALSE, "", "", "")

\* strconv.Atoi: an optional sign, then one or more decimal digits
Atoi(tok) ==
    LET signed == Len(tok) > 0 /\ tok[1] \in {43, 45}
        ds == IF signed THEN Tail(tok) ELSE tok
    IN  IF Len(ds) = 0 \/ (\E i \in 1..Len(ds) : ~isDigit(ds[i]))
        THEN [ok |-> FALSE, n |-> 0]
        ELSE [ok |-> TRUE,
              n |-> IF signed /\ tok[1] = 45 THEN -NumVal(ds, 0, Len(ds))
                    ELSE NumVal(ds, 0, Len(ds))]

\* os.Exit(1) after one message on stderr
Die(kind, msg) ==
    /\ fs' = [fs EXCEPT !.stderr = Append(@, Line(kind, 0, msg))]
    /\ exitCode' = 1
    /\ pc' = "exit"

DupKeyModes == {"reject", "keepfirst", "keeplast"}
NanInfModes == {"reject", "allow", "stringify"}
UTF8Modes == {"reject", "replace", "delete", "ignore"}
\* what follows a mode flag on the command line; "" is an empty argument
ModeArgs == DupKeyModes \cup NanInfModes \cup UTF8Modes \cup {"invalid", ""}
\* what follows -s: 0 1 2 3 +1 -1 x 1x and the empty argument
SkipArgs == {<<48 + k>> : k \in 0..(MaxSkip + 1)}
                \cup {<<43, 49>>, <<45, 49>>, <<120>>, <<49, 120>>, <<>>}

\* a switch on -d's value without its default case
ValidDupKeyMode_Any(m) == TRUE

\* the switch on each mode's value: its "valid" cases
ValidDupKeyMode(m) == m \in {"reject", "keepfirst", "keeplast"}
ValidNanInfMode(m) == m \in {"reject", "allow", "stringify"}
ValidUTF8Mode(m) == m \in {"reject", "replace", "delete", "ignore"}
\* err != nil || skipBytes < 0
ValidSkip(a) == Atoi(a).ok /\ Atoi(a).n >= 0

\* history only: whether the text after -s is a decimal integer at all
IsDecimal(a) ==
    \/ Len(a) >= 1 /\ \A i \in 1..Len(a) : a[i] \in 48..57
    \/ Len(a) >= 2 /\ a[1] \in {43, 45} /\ \A i \in 2..Len(a) : a[i] \in 48..57

ParseFlag ==
    /\ pc = "flags"
    /\ nflags < MaxFlags
    /\ nflags' = nflags + 1
    /\ UNCHANGED <<command, outputPath, inputJSON, outputJSON, data, value,
                   byteCount, decodeErr, output, isJSON, ret>>
    /\ \/ \* a flag that takes an argument, given last: len(args) < 2
          /\ \E f \in {"-d", "-f", "-s", "-u"} : Die("error", "requires an argument")
          /\ steps' = Append(steps, "flagerror")
          /\ UNCHANGED opt
       \/ \E m \in ModeArgs :
             IF ValidDupKeyMode(m)
             THEN /\ opt' = [opt EXCEPT !.dupKeyMode = m]
                  /\ steps' = Append(steps, "-d")
                  /\ UNCHANGED <<pc, fs, exitCode>>
             ELSE /\ Die("error", "invalid duplicate key mode")
                  /\ opt' = [opt EXCEPT !.dupKeyMode = m]
                  /\ steps' = Append(steps, "flagerror")
       \/ /\ opt' = [opt EXCEPT !.printEndOffset = TRUE]
          /\ steps' = Append(steps, "-e")
          /\ UNCHANGED <<pc, fs, exitCode>>
       \/ \E m \in ModeArgs :
             IF ValidNanInfMode(m)
             THEN /\ opt' = [opt EXCEPT !.nanInfMode = m]
                  /\ steps' = Append(steps, "-f")
                  /\ UNCHANGED <<pc, fs, exitCode>>
             ELSE /\ Die("error", "invalid special float mode")
                  /\ opt' = [opt EXCEPT !.nanInfMode = m]
                  /\ steps' = Append(steps, "flagerror")
       \/ /\ opt' = [opt EXCEPT !.allowNUL = TRUE]
          /\ steps' = Append(steps, "-n")
          /\ UNCHANGED <<pc, fs, exitCode>>
       \/ \E a \in SkipArgs :
             IF ValidSkip(a)
             THEN /\ opt' = [opt EXCEPT !.skipBytes = Atoi(a).n]
                  /\ steps' = Append(steps, IF IsDecimal(a) THEN "-s" ELSE "-s:nonint")
                  /\ UNCHANGED <<pc, fs, exitCode>>
             ELSE /\ Die("error", "invalid skip value")
                  /\ opt' = [opt EXCEPT !.skipBytes = Atoi(a).n]
                  /\ steps' = Append(steps, IF IsDecimal(a) THEN "-s" ELSE "-s:nonint")
       \/ /\ opt' = [opt EXCEPT !.allowTrailing = TRUE]
          /\ steps' = Append(steps, "-t")
          /\ UNCHANGED <<pc, fs, exitCode>>
       \/ \E m \in ModeArgs :
             IF ValidUTF8Mode(m)
             THEN /\ opt' = [opt EXCEPT !.utf8Mode = m]
                  /\ steps' = Append(steps, "-u")
                  /\ UNCHANGED <<pc, fs, exitCode>>
             ELSE /\ Die("error", "invalid UTF-8 mode")
                  /\ opt' = [opt EXCEPT !.utf8Mode = m]
                  /\ steps' = Append(steps, "flagerror")
       \/ \* any other token starting with '-'
          /\ Die("error", "Unknown option")
          /\ steps' = Append(steps, "flagerror")
          /\ UNCHANGED opt

\* the loop ends at the first token that is no flag (or at the end of args)
EndFlags ==
    /\ pc = "flags"
    /\ pc' = "args"
    /\ steps' = Append(steps, "endflags")
    /\ UNCHANGED <<opt, command, outputPath, inputJSON, outputJSON, data, value,
                   byteCount, decodeErr, output, isJSON, fs, ret, nflags, exitCode>>


(***************************************************************************)
(* main: command dispatch (lines 123-181)                                  *)
(***************************************************************************)
Commands == {"j", "b", "j2b", "j2j", "b2j", "b2b"}
\* the output argument: empty, standard output, a file
OutArgs == {"", "-", "out"}

CommandInputJSON(c) == c \in {"j", "j2b", "j2j"}
CommandOutputJSON(c) == c \in {"j2j", "b2j"}
\* no command asks for an output argument
CommandNeedsOutput_Never(c) == FALSE

CommandNeedsOutput(c) == c \in {"j2b", "j2j", "b2j", "b2b"}

\* printUsage writes this many lines
UsageLines == 20

\* n: how many arguments follow the flags; c: args[0]; out: args[2]
\* len(args) once the flags are consumed, as a step of the history
Argc(n) ==
    CASE n = 0 -> "argc=0" [] n = 1 -> "argc=1" [] n = 2 -> "argc=2" [] n = 3 -> "argc=3"

Dispatch ==
    /\ pc = "args"
    /\ UNCHANGED <<opt, data, value, byteCount, decodeErr, output, isJSON, ret, nflags>>
    /\ \E n \in 0..3, c \in Commands \cup {"unknown"}, out \in OutArgs :
          /\ command' = IF n >= 1 THEN c ELSE ""
          /\ IF n < 2
             THEN /\ Die("usage", "")
                  /\ steps' = Append(Append(steps, Argc(n)), "usage")
                  /\ UNCHANGED <<outputPath, inputJSON, outputJSON>>
             ELSE IF c \notin Commands
             THEN /\ fs' = [fs EXCEPT !.stderr =
                               @ \o <<Line("error", 0, "Unknown command"), Line("usage", 0, "")>>]
                  /\ exitCode' = 1
                  /\ pc' = "exit"
                  /\ steps' = Append(Append(steps, Argc(n)), "usage")
                  /\ UNCHANGED <<outputPath, inputJSON, outputJSON>>
             ELSE /\ inputJSON' = CommandInputJSON(c)
                  /\ outputJSON' = CommandOutputJSON(c)
                  /\ IF CommandNeedsOutput(c) /\ n < 3
                     THEN /\ Die("error", "command requires an output file")
                          /\ steps' = Append(Append(steps, Argc(n)), "argerror")
                          /\ UNCHANGED outputPath
                     ELSE IF ~CommandNeedsOutput(c) /\ n > 2
                     THEN /\ Die("error", "command does not accept an output file")
                          /\ steps' = Append(Append(steps, Argc(n)), "argerror")
                          /\ UNCHANGED outputPath
                     ELSE /\ outputPath' = IF CommandNeedsOutput(c) THEN out ELSE ""
                          /\ pc' = "read"
                          /\ steps' = Append(Append(steps, Argc(n)), "convert")
                          /\ UNCHANGED <<fs, exitCode>>

\* main printing convert's error and then falling off its end
MainExit_ExitZero ==
    /\ pc = "return"
    /\ pc' = "exit"
    /\ fs' = IF ret.kind # ""
             THEN [fs EXCEPT !.stderr = Append(@, Line("error", 0, ret.kind))] ELSE fs
    /\ exitCode' = 0
    /\ steps' = Append(steps, "exit")
    /\ UNCHANGED <<opt, command, outputPath, inputJSON, outputJSON, data, value,
                   byteCount, decodeErr, output, isJSON, ret, nflags>>

\* convert returned: main prints its error and exits 1, or falls off its end
MainExit ==
    /\ pc = "return"
    /\ pc' = "exit"
    /\ IF ret.kind # ""
       THEN /\ fs' = [fs EXCEPT !.stderr = Append(@, Line("error", 0, ret.kind))]
            /\ exitCode' = 1
       ELSE /\ exitCode' = 0
            /\ UNCHANGED fs
    /\ steps' = Append(steps, "exit")
    /\ UNCHANGED <<opt, command, outputPath, inputJSON, outputJSON, data, value,
                   byteCount, decodeErr, output, isJSON, ret, nflags>>

(***************************************************************************)
(* convert (lines 193-312) and writeOutput (lines 317-340)                 *)
(***************************************************************************)
Return(e) ==
    /\ ret' = e
    /\ pc' = "return"

\* a convert that creates its destination file before it reads its source
Read_CreateFirst ==
    /\ pc = "read"
    /\ steps' = Append(steps, "read")
    /\ UNCHANGED <<opt, command, outputPath, inputJSON, outputJSON, value,
                   byteCount, decodeErr, output, isJSON, nflags, exitCode>>
    /\ LET made == IF outputPath \in {"", "-"} THEN fs
                   ELSE [fs EXCEPT !.outFile = [exists |-> TRUE, content |-> <<>>]]
       IN  \/ /\ Return(Err("reading input", "io"))
              /\ fs' = made
              /\ UNCHANGED data
           \/ \E f \in Files :
                 /\ data' = f
                 /\ fs' = [made EXCEPT !.inFile = f]
                 /\ pc' = "skip"
                 /\ UNCHANGED ret

\* lines 194-206: the whole source is read, or the read fails
Read ==
    /\ pc = "read"
    /\ steps' = Append(steps, "read")
    /\ UNCHANGED <<opt, command, outputPath, inputJSON, outputJSON, value,
                   byteCount, decodeErr, output, isJSON, nflags, exitCode>>
    /\ \/ /\ Return(Err("reading input", "io"))
          /\ UNCHANGED <<data, fs>>
       \/ \E f \in Files :
             /\ data' = f
             /\ fs' = [fs EXCEPT !.inFile = f]
             /\ pc' = "skip"
             /\ UNCHANGED ret

\* data[skipBytes-1:], a skip that stops one byte early
SkipBytes_OffByOne(buf, n) == SubSeq(buf, n, Len(buf))

\* data[skipBytes:]
SkipBytes(buf, n) == SubSeq(buf, n + 1, Len(buf))

\* lines 208-213 alone, without the empty-input check of lines 215-217
SkipResult_NoEmptyCheck(buf, n) ==
    IF n > 0 /\ n >= Len(buf)
    THEN [data |-> buf, err |-> Err("skip value exceeds input size", "")]
    ELSE [data |-> IF n > 0 THEN SkipBytes(buf, n) ELSE buf, err |-> NoErr]

\* lines 208-217: the buffer after the skip, and the error of a skip past
\* the input or of an empty buffer
SkipResult(buf, n) ==
    IF n > 0 /\ n >= Len(buf)
    THEN [data |-> buf, err |-> Err("skip value exceeds input size", "")]
    ELSE LET d == IF n > 0 THEN SkipBytes(buf, n) ELSE buf
         IN  [data |-> d,
              err |-> IF Len(d) = 0 THEN Err("input is empty", "") ELSE NoErr]

Skip ==
    /\ pc = "skip"
    /\ steps' = Append(steps, "skip")
    /\ UNCHANGED <<opt, command, outputPath, inputJSON, outputJSON, value,
                   byteCount, decodeErr, output, isJSON, fs, nflags, exitCode>>
    /\ LET r == SkipResult(data, opt.skipBytes)
       IN  /\ data' = r.data
           /\ IF r.err.kind # ""
              THEN Return(r.err)
              ELSE /\ pc' = "decode"
                   /\ UNCHANGED ret

\* lines 229-254 alone: the decoder's own result, bytes after the document
\* never an error
DecodeBONJSON_NoTrailing(buf, o) ==
    LET r == Decode(buf, DecOpts(o.allowNUL, o.dupKeyMode, o.utf8Mode, o.nanInfMode))
    IN  [value |-> r.value, byteCount |-> r.byteCount, err |-> r.err]

\* allowTrailing dropping whatever error the decode ended with
DecodeBONJSON_SuppressAll(buf, o) ==
    LET r == Decode(buf, DecOpts(o.allowNUL, o.dupKeyMode, o.utf8Mode, o.nanInfMode))
        e == IF r.err = "" /\ r.byteCount < Len(buf) THEN "trailing" ELSE r.err
    IN  [value |-> r.value, byteCount |-> r.byteCount,
         err |-> IF o.allowTrailing THEN "" ELSE e]

\* lines 229-263: the decoder under the flags' modes, the trailing-data
\* error convert adds, and its suppression by allowTrailing
DecodeBONJSON(buf, o) ==
    LET r == Decode(buf, DecOpts(o.allowNUL, o.dupKeyMode, o.utf8Mode, o.nanInfMode))
        e == IF r.err = "" /\ r.byteCount < Len(buf) THEN "trailing" ELSE r.err
    IN  [value |-> r.value, byteCount |-> r.byteCount,
         err |-> IF o.allowTrailing /\ e = "trailing" THEN "" ELSE e]

\* the end offset printed only after a decode without error
OffsetLines_OnSuccess(o, r) ==
    IF o.printEndOffset /\ r.err = ""
    THEN <<Line("offset", o.skipBytes + r.byteCount, "")>> ELSE <<>>

\* lines 264-266: the end offset on stderr, whatever Decode returned
OffsetLines(o, r) ==
    IF o.printEndOffset THEN <<Line("offset", o.skipBytes + r.byteCount, "")>> ELSE <<>>

\* lines 219-267
DecodeStep ==
    /\ pc = "decode"
    /\ steps' = Append(steps, "decode")
    /\ UNCHANGED <<opt, command, outputPath, inputJSON, outputJSON, data,
                   output, isJSON, nflags, exitCode>>
    /\ IF inputJSON
       THEN LET r == Unmarshal(data)
            IN  /\ value' = r.value
                /\ UNCHANGED <<byteCount, decodeErr, fs>>
                /\ IF r.err # ""
                   THEN Return(Err("invalid JSON", r.err))
                   ELSE /\ pc' = "decoded"
                        /\ UNCHANGED ret
       ELSE LET r == DecodeBONJSON(data, opt)
            IN  /\ value' = r.value
                /\ byteCount' = r.byteCount
                /\ decodeErr' = r.err
                /\ fs' = [fs EXCEPT !.stderr = @ \o OffsetLines(opt, r)]
                /\ pc' = "decoded"
                /\ UNCHANGED ret

\* line 269: no output path means validate-only mode
IsValidateOnly_Never(path) == FALSE

IsValidateOnly(path) == path = ""

\* lines 269-275: validate-only mode
ValidateOnly ==
    /\ pc = "decoded"
    /\ IsValidateOnly(outputPath)
    /\ steps' = Append(steps, "validate")
    /\ Return(IF decodeErr # "" THEN Err("invalid BONJSON", decodeErr) ELSE NoErr)
    /\ UNCHANGED <<opt, command, outputPath, inputJSON, outputJSON, data, value,
                   byteCount, decodeErr, output, isJSON, fs, nflags, exitCode>>

\* the two encoders taken for each other
EncodeValue_Swapped(v, outJ, nan) == IF outJ THEN Encode(v, nan) ELSE MarshalIndent(v)

\* lines 279-297: the value in the destination form
EncodeValue(v, outJ, nan) == IF outJ THEN MarshalIndent(v) ELSE Encode(v, nan)

\* an encoder failure that does not end the request: convert goes on to
\* the write with nothing to write
EncodeStep_Continue ==
    /\ pc = "decoded"
    /\ ~IsValidateOnly(outputPath)
    /\ steps' = Append(steps, "encode")
    /\ UNCHANGED <<opt, command, outputPath, inputJSON, outputJSON, data, value,
                   byteCount, decodeErr, isJSON, fs, nflags, exitCode, ret>>
    /\ output' = EncodeValue(value, outputJSON, opt.nanInfMode).out
    /\ pc' = "write"

\* lines 277-297
EncodeStep ==
    /\ pc = "decoded"
    /\ ~IsValidateOnly(outputPath)
    /\ steps' = Append(steps, "encode")
    /\ UNCHANGED <<opt, command, outputPath, inputJSON, outputJSON, data, value,
                   byteCount, decodeErr, isJSON, fs, nflags, exitCode>>
    /\ LET r == EncodeValue(value, outputJSON, opt.nanInfMode)
       IN  IF r.err # ""
           THEN /\ Return(Err(IF outputJSON THEN "encoding JSON" ELSE "encoding BONJSON", r.err))
                /\ UNCHANGED output
           ELSE /\ output' = r.out
                /\ pc' = "write"
                /\ UNCHANGED ret

\* whether writeOutput ends its bytes with a display newline
AddsNewline(path, isJ) == path = "" /\ isJ

\* writeOutput(data, outputPath, isJSON) under what the destination does:
\* "ok", "createfail" (os.Create fails) or "writefail" (w.Write fails)
writeOutput(f, bytes, path, isJ, outcome) ==
    IF path = "" \/ path = "-"
    THEN IF outcome = "writefail"
         THEN [fs |-> f, err |-> Err("writing output", "io")]
         ELSE [fs |-> [f EXCEPT !.stdout =
                          @ \o bytes \o (IF AddsNewline(path, isJ) THEN <<10>> ELSE <<>>)],
               err |-> NoErr]
    ELSE IF outcome = "createfail"
    THEN [fs |-> f, err |-> Err("creating output file", "io")]
    ELSE IF outcome = "writefail"
    THEN [fs |-> [f EXCEPT !.outFile = [exists |-> TRUE, content |-> <<>>]],
          err |-> Err("writing output", "io")]
    ELSE [fs |-> [f EXCEPT !.outFile =
                     [exists |-> TRUE,
                      content |-> bytes \o (IF AddsNewline(path, isJ) THEN <<10>> ELSE <<>>)]],
          err |-> NoErr]

WriteOutcomes(path) ==
    IF path = "" \/ path = "-" THEN {"ok", "writefail"} ELSE {"ok", "createfail", "writefail"}

\* lines 299-304
Write ==
    /\ pc = "write"
    /\ UNCHANGED <<opt, command, outputPath, inputJSON, outputJSON, data, value,
                   byteCount, decodeErr, output, isJSON, nflags, exitCode>>
    /\ IF Len(output) > 0
       THEN \E outcome \in WriteOutcomes(outputPath) :
               LET r == writeOutput(fs, output, outputPath, outputJSON, outcome)
               IN  /\ fs' = r.fs
                   /\ steps' = Append(steps, "write")
                   /\ IF r.err.kind # ""
                      THEN Return(r.err)
                      ELSE /\ pc' = "report"
                           /\ UNCHANGED ret
       ELSE /\ pc' = "report"
            /\ steps' = Append(steps, "nowrite")
            /\ UNCHANGED <<fs, ret>>

\* convert ending in success whatever Decode returned
Report_NoError ==
    /\ pc = "report"
    /\ steps' = Append(steps, "report")
    /\ Return(NoErr)
    /\ UNCHANGED <<opt, command, outputPath, inputJSON, outputJSON, data, value,
                   byteCount, decodeErr, output, isJSON, fs, nflags, exitCode>>

\* lines 306-311
Report ==
    /\ pc = "report"
    /\ steps' = Append(steps, "report")
    /\ Return(IF decodeErr # "" THEN Err("decoding BONJSON", decodeErr) ELSE NoErr)
    /\ UNCHANGED <<opt, command, outputPath, inputJSON, outputJSON, data, value,
                   byteCount, decodeErr, output, isJSON, fs, nflags, exitCode>>


(***************************************************************************)
(* The detector applied to a buffer (j2b's convert, line 97)               *)
(***************************************************************************)
DetectStep ==
    /\ pc = "detect"
    /\ isJSON' = detectJSON(data)
    /\ pc' = "detected"
    /\ steps' = Append(steps, "detect")
    /\ UNCHANGED <<opt, command, outputPath, inputJSON, outputJSON, data, value,
                   byteCount, decodeErr, output, fs, ret, nflags, exitCode>>

(***************************************************************************)
(* convert as a function of its input: the path through lines 193-312 for  *)
(* a source that reads as `file` and a destination that behaves as         *)
(* `outcome`.  `out` is what the destination received.                     *)
(***************************************************************************)
EmptyFS == [inFile |-> <<>>, outFile |-> AbsentFile, stdout |-> <<>>, stderr |-> <<>>]

\* what a run left in its destinations
Produced(f) ==
    [stdout |-> f.stdout,
     touched |-> f.outFile \notin {AbsentFile, OldFile},
     file |-> IF f.outFile \in {AbsentFile, OldFile} THEN <<>> ELSE f.outFile.content]

ConvertFn(file, o, inJ, outJ, path, outcome) ==
    LET s == SkipResult(file, o.skipBytes)
        d == IF inJ
             THEN [value |-> Unmarshal(s.data).value, byteCount |-> 0,
                   err |-> Unmarshal(s.data).err]
             ELSE DecodeBONJSON(s.data, o)
        off == IF inJ THEN <<>> ELSE OffsetLines(o, d)
        e == EncodeValue(d.value, outJ, o.nanInfMode)
        w == IF Len(e.out) > 0
             THEN writeOutput(EmptyFS, e.out, path, outJ, outcome)
             ELSE [fs |-> EmptyFS, err |-> NoErr]
        Res(r, f, lines) == [ret |-> r, out |-> Produced(f), offsets |-> lines]
    IN  IF s.err.kind # "" THEN Res(s.err, EmptyFS, <<>>)
        ELSE IF inJ /\ d.err # "" THEN Res(Err("invalid JSON", d.err), EmptyFS, off)
        ELSE IF IsValidateOnly(path)
        THEN Res(IF d.err # "" THEN Err("invalid BONJSON", d.err) ELSE NoErr, EmptyFS, off)
        ELSE IF e.err # ""
        THEN Res(Err(IF outJ THEN "encoding JSON" ELSE "encoding BONJSON", e.err),
                 EmptyFS, off)
        ELSE IF w.err.kind # "" THEN Res(w.err, w.fs, off)
        ELSE Res(IF d.err # "" THEN Err("decoding BONJSON", d.err) ELSE NoErr, w.fs, off)

(***************************************************************************)
(* Specifications                                                          *)
(***************************************************************************)
\* the flag combinations convert is run under: -t, -s, -e in every
\* combination, and each mode flag alone and with -t
ModeSets ==
    {<<TRUE, "", "", "">>, <<FALSE, "reject", "", "">>, <<FALSE, "keepfirst", "", "">>,
     <<FALSE, "keeplast", "", "">>, <<FALSE, "", "replace", "">>, <<FALSE, "", "delete", "">>,
     <<FALSE, "", "ignore", "">>, <<FALSE, "", "", "allow">>, <<FALSE, "", "", "stringify">>}
OptSet ==
    {Opt(t, s, e, FALSE, "", "", "") : t \in BOOLEAN, s \in 0..MaxSkip, e \in BOOLEAN}
        \cup {Opt(t, 0, FALSE, m[1], m[2], m[3], m[4]) : t \in BOOLEAN, m \in ModeSets}

\* the flag loop run to its end over valid flags
Flags ==
    /\ pc = "flags"
    /\ \E o \in OptSet : opt' = o
    /\ pc' = "args"
    /\ steps' = Append(steps, "endflags")
    /\ UNCHANGED <<command, outputPath, inputJSON, outputJSON, data, value,
                   byteCount, decodeErr, output, isJSON, fs, ret, nflags, exitCode>>

InitCommon ==
    /\ opt = NoFlags
    /\ command = ""
    /\ outputPath = ""
    /\ inputJSON = FALSE
    /\ outputJSON = FALSE
    /\ value = NilV
    /\ byteCount = 0
    /\ decodeErr = ""
    /\ output = <<>>
    /\ isJSON = FALSE
    /\ ret = NoErr
    /\ nflags = 0
    /\ exitCode = -1
    /\ steps = <<>>

\* the process as it starts, before the destination is touched
Init ==
    /\ InitCommon
    /\ pc = "flags"
    /\ data = <<>>
    /\ \E f \in {AbsentFile, OldFile} :
          fs = [inFile |-> <<>>, outFile |-> f, stdout |-> <<>>, stderr |-> <<>>]

Next ==
    \/ Flags
    \/ Dispatch
    \/ Read
    \/ Skip
    \/ DecodeStep
    \/ ValidateOnly
    \/ EncodeStep
    \/ Write
    \/ Report
    \/ MainExit

Spec == Init /\ [][Next]_vars

\* main's argument handling alone, token by token, up to the call of convert
NextMain ==
    \/ ParseFlag
    \/ EndFlags
    \/ Dispatch

SpecMain == Init /\ [][NextMain]_vars

\* the buffers detectJSON is applied to: every buffer of up to MaxBufLen
\* bytes over an alphabet with a byte of each class the detector tells
\* apart, the documents of both formats, JSON documents inside whitespace,
\* and the two multi-byte integers whose type codes are 't' and '{'
MaxBufLen == 3
MaxPad == 1
DetAlphabet == {0, 32, 34, 45, 49, 91, 93, 102, 110, 116, 123, 125, 153}

RECURSIVE SeqsOf(_, _)
SeqsOf(S, n) ==
    IF n = 0 THEN {<<>>}
    ELSE {<<b>> \o t : b \in S, t \in SeqsOf(S, n - 1)}

ShortBuffers == UNION {SeqsOf(DetAlphabet, n) : n \in 0..MaxBufLen}
PaddedJSON ==
    {Rep(32, a) \o d \o Rep(10, b) :
        d \in JSONDocs \cup {<<53>>, <<49, 50>>, <<123, 32, 125>>, <<91, 10, 93>>},
        a \in 0..MaxPad, b \in 0..MaxPad}
\* 0x74: an unsigned integer of five bytes; 0x7b: a signed integer of four
UintDocs == {<<116>> \o t : t \in SeqsOf({1, 101, 114, 117}, 5)}
SintDocs == {<<123>> \o t : t \in SeqsOf({1, 32, 34, 125}, 4)}
\* buffers of whitespace alone
WhitespaceBuffers == UNION {SeqsOf({9, 10, 13, 32}, n) : n \in 1..MaxBufLen}
\* documents of either form behind a long run of spaces
MaxLead == 6
LeadingBuffers ==
    {Rep(32, n) \o d : n \in 0..MaxLead,
                       d \in {<<102>>, <<153, 155>>, <<123, 32, 32, 125>>, <<91, 49, 93>>}}
\* 0x6e is false, a whole document; "null" and what comes close to it
NullDocs == UNION {{<<110>> \o t : t \in SeqsOf({1, 108, 117}, n)} : n \in 0..4}
\* '{' and '[', whitespace, then a byte that opens or closes or does neither
OpenDocs ==
    {<<o>> \o ws \o t : o \in {123, 91}, ws \in {<<>>, <<9>>, <<32, 10>>, <<13, 32, 9>>},
                         t \in SeqsOf({1, 34, 45, 93, 125}, 0) \cup SeqsOf({1, 34, 45, 93, 125}, 1)
                               \cup SeqsOf({1, 34, 45, 93, 125}, 2)}
\* a digit alone (a small integer of BONJSON), and a digit before each byte
DigitDocs ==
    {ws \o <<d>> \o t : ws \in {<<>>, <<10>>}, d \in {48, 53, 57},
                         t \in {<<>>} \cup {<<b>> : b \in 0..255}}
DetectInputs ==
    ShortBuffers \cup BinDocs \cup Trailing \cup PaddedJSON \cup BadJSON
        \cup UintDocs \cup SintDocs \cup WhitespaceBuffers \cup LeadingBuffers
        \cup NullDocs \cup OpenDocs \cup DigitDocs

InitDetect ==
    /\ InitCommon
    /\ pc = "detect"
    /\ \E b \in DetectInputs :
          /\ data = b
          /\ fs = [EmptyFS EXCEPT !.inFile = b]

SpecDetect == InitDetect /\ [][DetectStep]_vars

(***************************************************************************)
(* j2b, the converter that detects the form of its input: main (lines      *)
(* 17-64) and convert (lines 71-116), with the decode and the encode of    *)
(* jsonToBONJSON (274-280) and bonjsonToJSON (284-299) as its two steps    *)
(***************************************************************************)
\* lines 17-64: the flags -t and -s N, then the two paths
AutoMain ==
    /\ pc = "automain"
    /\ steps' = Append(steps, "automain")
    /\ UNCHANGED <<command, inputJSON, outputJSON, data, value, byteCount, decodeErr,
                   output, isJSON, ret, nflags>>
    /\ \/ /\ Die("error", "invalid skip value")
          /\ UNCHANGED <<opt, outputPath>>
       \/ /\ Die("error", "Unknown option")
          /\ UNCHANGED <<opt, outputPath>>
       \/ /\ Die("usage", "")
          /\ UNCHANGED <<opt, outputPath>>
       \/ \E t \in BOOLEAN, s \in 0..MaxSkip, out \in OutArgs :
             /\ opt' = Opt(t, s, FALSE, FALSE, "", "", "")
             /\ outputPath' = out
             /\ pc' = "autoread"
             /\ UNCHANGED <<fs, exitCode>>

\* lines 72-84
AutoRead ==
    /\ pc = "autoread"
    /\ steps' = Append(steps, "autoread")
    /\ UNCHANGED <<opt, command, outputPath, inputJSON, outputJSON, value,
                   byteCount, decodeErr, output, isJSON, nflags, exitCode>>
    /\ \/ /\ Return(Err("reading input file", "io"))
          /\ UNCHANGED <<data, fs>>
       \/ \E f \in Files :
             /\ data' = f
             /\ fs' = [fs EXCEPT !.inFile = f]
             /\ pc' = "autoskip"
             /\ UNCHANGED ret

\* lines 86-95
AutoSkip ==
    /\ pc = "autoskip"
    /\ steps' = Append(steps, "autoskip")
    /\ UNCHANGED <<opt, command, outputPath, inputJSON, outputJSON, value,
                   byteCount, decodeErr, output, isJSON, fs, nflags, exitCode>>
    /\ LET r == SkipResult(data, opt.skipBytes)
       IN  /\ data' = r.data
           /\ IF r.err.kind # ""
              THEN Return(r.err)
              ELSE /\ pc' = "detect"
                   /\ UNCHANGED ret

\* lines 99-113, first half: json.Unmarshal in jsonToBONJSON (275-278), or
\* bonjson.UnmarshalWithByteCount in bonjsonToJSON (285-297), where a
\* trailing-data error is dropped under allowTrailing and any other error
\* returns nil: the value is kept only when there is no error
AutoDecode ==
    /\ pc = "detected"
    /\ steps' = Append(steps, "autodecode")
    /\ UNCHANGED <<opt, command, outputPath, inputJSON, outputJSON, data, output,
                   isJSON, fs, nflags, exitCode>>
    /\ IF isJSON
       THEN LET r == Unmarshal(data)
            IN  /\ UNCHANGED <<byteCount, decodeErr>>
                /\ IF r.err # ""
                   THEN /\ Return(Err("converting JSON to BONJSON", r.err))
                        /\ UNCHANGED value
                   ELSE /\ value' = r.value
                        /\ pc' = "autoencode"
                        /\ UNCHANGED ret
       ELSE LET r == DecodeBONJSON(data, opt)
            IN  /\ byteCount' = r.byteCount
                /\ decodeErr' = r.err
                /\ IF r.err # ""
                   THEN /\ Return(Err("converting BONJSON to JSON", r.err))
                        /\ UNCHANGED value
                   ELSE /\ value' = r.value
                        /\ pc' = "autoencode"
                        /\ UNCHANGED ret

\* lines 99-113, second half: bonjson.Marshal (279) or json.MarshalIndent
\* (298) of the value, into the form that the input does not have
AutoEncode ==
    /\ pc = "autoencode"
    /\ steps' = Append(steps, "autoencode")
    /\ UNCHANGED <<opt, command, outputPath, inputJSON, data, value, byteCount,
                   decodeErr, isJSON, fs, nflags, exitCode>>
    /\ LET r == EncodeValue(value, ~isJSON, opt.nanInfMode)
       IN  IF r.err # ""
           THEN /\ Return(Err(IF isJSON THEN "converting JSON to BONJSON"
                              ELSE "converting BONJSON to JSON", r.err))
                /\ UNCHANGED <<output, outputJSON>>
           ELSE /\ output' = r.out
                /\ outputJSON' = ~isJSON
                /\ pc' = "autowrite"
                /\ UNCHANGED ret

\* line 115
AutoWrite ==
    /\ pc = "autowrite"
    /\ steps' = Append(steps, "autowrite")
    /\ UNCHANGED <<opt, command, outputPath, inputJSON, outputJSON, data, value,
                   byteCount, decodeErr, output, isJSON, nflags, exitCode>>
    /\ \E outcome \in WriteOutcomes(outputPath) :
          LET r == writeOutput(fs, output, outputPath, outputJSON, outcome)
          IN  /\ fs' = r.fs
              /\ Return(r.err)

InitAuto ==
    /\ InitCommon
    /\ pc = "automain"
    /\ data = <<>>
    /\ \E f \in {AbsentFile, OldFile} :
          fs = [inFile |-> <<>>, outFile |-> f, stdout |-> <<>>, stderr |-> <<>>]

NextAuto ==
    \/ AutoMain
    \/ AutoRead
    \/ AutoSkip
    \/ DetectStep
    \/ AutoDecode
    \/ AutoEncode
    \/ AutoWrite
    \/ MainExit

SpecAuto == InitAuto /\ [][NextAuto]_vars

(***************************************************************************)
(* Properties                                                              *)
(***************************************************************************)
Has(s) == \E i \in 1..Len(steps) : steps[i] = s

OffsetsOf(f) == SelectSeq(f.stderr, LAMBDA l : l.kind = "offset")

Untouched(f) == f.stdout = <<>> /\ f.outFile \in {AbsentFile, OldFile}

IOFailed == ret.kind \in {"reading input", "creating output file", "writing output"}

\* what the destination did in this run, read off the error convert returned
OutcomeOf(r) ==
    IF r.kind = "creating output file" THEN "createfail"
    ELSE IF r.kind = "writing output" THEN "writefail"
    ELSE "ok"

Modes(o) == DecOpts(o.allowNUL, o.dupKeyMode, o.utf8Mode, o.nanInfMode)

\* buf is one whole BONJSON document under the modes of o
WholeBinary(buf, o) ==
    LET r == Decode(buf, Modes(o)) IN r.err = "" /\ r.byteCount = Len(buf)

\* buf is a BONJSON document under the modes of o, then one or more bytes
DocThenExtra(buf, o) ==
    LET r == Decode(buf, Modes(o)) IN r.err = "" /\ r.byteCount < Len(buf)

WellFormedJSON(buf) == Unmarshal(buf).err = ""

\* the BONJSON document of a value: the "valid decoded prefix" as a document
DocOf(v) == Encode(v, "allow").out

\* the conversion of this run's kind applied to buf, no skip, under flags o
RefRun(buf, o) ==
    ConvertFn(buf, [o EXCEPT !.skipBytes = 0], inputJSON, outputJSON, outputPath,
              OutcomeOf(ret))

----------------------------------------------------------------------------
----------------------------------------------------------------------------
----------------------------------------------------------------------------
\* a five-byte unsigned integer (type code 0x74, 't') whose first three
\* data bytes are "rue"
IntLooksLikeTrue(buf) == buf[1] = 116 /\ SubSeq(buf, 2, 4) = <<114, 117, 101>>

\* a four-byte signed integer (type code 0x7b, '{') whose data bytes are
\* whitespace up to a '"' or a '}'
IntLooksLikeObject(buf) ==
    /\ buf[1] = 123
    /\ \E j \in 2..Len(buf) :
          /\ buf[j] \in {34, 125}
          /\ \A i \in 2..(j - 1) : buf[i] \in {9, 10, 13, 32}

\* C3 (as amended): on a well-formed BONJSON document longer than one byte
\* detectJSON returns false, except on the integers described by
\* IntLooksLikeTrue and IntLooksLikeObject, where it returns true.
C3_BinaryNotJSON ==
    (pc = "detected" /\ Len(data) > 1 /\ WholeBinary(data, NoFlags))
        => (isJSON <=> (IntLooksLikeTrue(data) \/ IntLooksLikeObject(data)))

\* an integer with type code '{' that is detected as binary
C3_Witness ==
    /\ pc = "detected" /\ WholeBinary(data, NoFlags)
    /\ data[1] = 123 /\ ~isJSON

\* C3 as stated: false on every well-formed BONJSON document longer than
\* one byte
C3_Original ==
    (pc = "detected" /\ Len(data) > 1 /\ WholeBinary(data, NoFlags)) => ~isJSON

----------------------------------------------------------------------------
\* optional whitespace, then one digit as the last byte of the buffer
SingleDigitAtEnd(buf) ==
    /\ Len(buf) >= 1
    /\ buf[Len(buf)] \in 48..57
    /\ \A i \in 1..(Len(buf) - 1) : buf[i] \in {9, 10, 13, 32}

\* C4 (as amended): on a well-formed JSON document longer than one byte
\* detectJSON returns true, except when the document is a single digit that
\* is the last byte of the buffer, where it returns false.
C4_JSONDetected ==
    (pc = "detected" /\ Len(data) > 1 /\ WellFormedJSON(data))
        => (isJSON <=> ~SingleDigitAtEnd(data))

\* a JSON document inside whitespace that is detected as JSON
C4_Witness ==
    /\ pc = "detected" /\ WellFormedJSON(data) /\ isJSON
    /\ data[1] = 32 /\ data[Len(data)] = 10 /\ data[2] = 45

\* C4 as stated: true on every well-formed JSON document longer than one
\* byte
C4_Original ==
    (pc = "detected" /\ Len(data) > 1 /\ WellFormedJSON(data)) => isJSON

----------------------------------------------------------------------------
\* buf is one whole document of the run's source form
ValidDoc(buf) == IF inputJSON THEN WellFormedJSON(buf) ELSE WholeBinary(buf, opt)

\* C5: for a valid document D behind a prefix of K bytes, the run with skip K
\* ends with the same error (or success), the same exit status and the same
\* bytes in its destination as the same command on D alone with no skip,
\* the destination behaving alike in both.
C5_SkipEquivalence ==
    (pc = "exit" /\ Has("skip") /\ opt.skipBytes > 0 /\ opt.skipBytes < Len(fs.inFile)
        /\ ValidDoc(SkipBytes(fs.inFile, opt.skipBytes)))
        => LET ref == RefRun(SubSeq(fs.inFile, opt.skipBytes + 1, Len(fs.inFile)), opt)
           IN  /\ ret = ref.ret
               /\ Produced(fs) = ref.out
               /\ exitCode = IF ref.ret = NoErr THEN 0 ELSE 1

\* "HH" before {"a":1} in BONJSON, converted to JSON on stdout with -s 2
C5_Witness ==
    /\ pc = "exit" /\ command = "b2j" /\ outputPath = "-" /\ opt.skipBytes = 2
    /\ fs.inFile = <<72, 72, 154, 129, 97, 1, 155>>
    /\ fs.stdout = MarshalIndent(ObjV(<<[key |-> <<97>>, val |-> IntV(1)]>>)).out
    /\ exitCode = 0

----------------------------------------------------------------------------
\* C6: once the source is read, a skip offset greater than or equal to its
\* length (an empty source with no skip included: the buffer is empty after
\* the skip) makes convert return an input error before Decode: no decoder
\* runs, no end offset is printed, nothing is encoded or written, exit 1.
C6_SkipPastEnd ==
    (Has("skip") /\ opt.skipBytes >= Len(fs.inFile))
        => /\ pc \in {"return", "exit"}
           /\ ret.kind \in {"skip value exceeds input size", "input is empty"}
           /\ ret.kind = "input is empty" <=> opt.skipBytes = 0
           /\ ~Has("decode") /\ ~Has("validate") /\ ~Has("encode") /\ ~Has("write")
           /\ OffsetsOf(fs) = <<>>
           /\ Untouched(fs)
           /\ value = NilV /\ output = <<>>
           /\ pc = "exit" => exitCode = 1

\* -e -s 2 on a source of two bytes
C6_Witness ==
    /\ pc = "exit" /\ opt.skipBytes = 2 /\ Len(fs.inFile) = 2 /\ opt.printEndOffset
    /\ ret.kind = "skip value exceeds input size"
    /\ exitCode = 1

----------------------------------------------------------------------------
\* what a finished run printed on stderr besides its end offset
Diagnostics(f) == SelectSeq(f.stderr, LAMBDA l : l.kind # "offset")

\* C7 (as amended): a run without an output path (commands j and b) never
\* runs Encode or Write: nothing reaches stdout and no file is created or
\* written, whether Decode succeeds or fails.  What can be observed of it is
\* the exit status, the one error line of a failure, and, under -e with a
\* BONJSON source, the end offset on stderr.
C7_ValidateOnly ==
    (Has("convert") /\ outputPath = "")
        => /\ ~Has("encode") /\ ~Has("write") /\ ~Has("nowrite")
           /\ Untouched(fs)
           /\ output = <<>>
           /\ pc = "exit"
                 => /\ exitCode = IF ret = NoErr THEN 0 ELSE 1
                    /\ Diagnostics(fs) = IF ret = NoErr THEN <<>>
                                         ELSE <<Line("error", 0, ret.kind)>>
                    /\ Len(OffsetsOf(fs)) =
                          IF opt.printEndOffset /\ ~inputJSON /\ Has("decode") THEN 1 ELSE 0

\* `b` on a truncated document: exit 1, nothing written
C7_Witness ==
    /\ pc = "exit" /\ command = "b" /\ decodeErr = "truncated"
    /\ ret = Err("invalid BONJSON", "truncated")
    /\ exitCode = 1 /\ Untouched(fs)

\* C7 as stated: besides writing nothing, a validate-only run shows nothing
\* but its success or failure (the exit status and the error line)
C7_Original ==
    (pc = "exit" /\ command \in {"j", "b"} /\ Has("convert"))
        => /\ ~Has("encode") /\ ~Has("write") /\ Untouched(fs)
           /\ OffsetsOf(fs) = <<>>

----------------------------------------------------------------------------
\* C8 (as amended): under -e with a BONJSON source, every run of convert
\* that reaches Decode prints skipBytes + (the bytes Decode consumed) as
\* exactly one line on stderr, whether Decode, Encode or Write then fails or
\* not; a run that fails before Decode (unreadable source, skip past the
\* end, empty input) prints no offset.
C8_EndOffset ==
    (Has("convert") /\ opt.printEndOffset /\ ~inputJSON)
        => OffsetsOf(fs) =
              IF Has("decode")
              THEN <<Line("offset", opt.skipBytes + Decode(data, Modes(opt)).byteCount, "")>>
              ELSE <<>>

\* -e -s 1 b2j on a header byte and a truncated array, the file unwritable
C8_Witness ==
    /\ pc = "exit" /\ opt.skipBytes = 1 /\ opt.printEndOffset
    /\ fs.inFile = <<72, 153, 1>> /\ outputPath = "out"
    /\ ret.kind = "creating output file"
    /\ OffsetsOf(fs) = <<Line("offset", 3, "")>>

\* C8 as stated: every run of convert under -e with a BONJSON source
\* prints one offset line, however it ends (runs whose source cannot be
\* read left aside)
C8_Original ==
    (pc = "exit" /\ Has("read") /\ ret.kind # "reading input"
        /\ opt.printEndOffset /\ ~inputJSON)
        => Len(OffsetsOf(fs)) = 1

----------------------------------------------------------------------------
\* C9: after a write that succeeded, the destination holds the encoded
\* bytes, followed by exactly one newline when they are JSON and went to
\* standard output (output path "" or "-"), and by nothing otherwise.
C9_NewlinePolicy ==
    (Has("write") /\ ~IOFailed)
        => LET stdout == outputPath \in {"", "-"}
               written == IF stdout THEN fs.stdout ELSE fs.outFile.content
           IN  written = output \o (IF stdout /\ outputJSON THEN <<10>> ELSE <<>>)

----------------------------------------------------------------------------
\* C10: a -d, -u or -f value outside its enumeration, and a -s value that
\* is negative or no integer, end the process with status 1 in the flag
\* loop: convert is never called, so nothing is read and no destination is
\* created.  Hence whenever convert is called each mode is in its
\* enumeration or unset and skipBytes >= 0.
C10_FlagsValidated ==
    /\ Has("convert")
          => /\ opt.dupKeyMode \in DupKeyModes \cup {""}
             /\ opt.utf8Mode \in UTF8Modes \cup {""}
             /\ opt.nanInfMode \in NanInfModes \cup {""}
             /\ opt.skipBytes >= 0
             /\ ~Has("-s:nonint")
    /\ (\/ opt.dupKeyMode \notin DupKeyModes \cup {""}
        \/ opt.utf8Mode \notin UTF8Modes \cup {""}
        \/ opt.nanInfMode \notin NanInfModes \cup {""}
        \/ opt.skipBytes < 0
        \/ Has("-s:nonint"))
          => /\ pc = "exit" /\ exitCode = 1
             /\ ~Has("convert") /\ ~Has("read")
             /\ fs.inFile = <<>> /\ Untouched(fs)
             /\ Len(fs.stderr) = 1

\* -t, then -d with a value that is no mode
C10_Witness ==
    /\ pc = "exit" /\ exitCode = 1 /\ opt.allowTrailing
    /\ opt.dupKeyMode = "invalid"
    /\ ~Has("convert")

----------------------------------------------------------------------------
\* the codec operators stay inside what they compute: no run ends in an
\* error of kind "unmodelled"
Modelled == ret.cause # "unmodelled" /\ decodeErr # "unmodelled"

\* the steps of convert and ConvertFn agree on every finished run
StepsAgree ==
    (pc = "exit" /\ Has("skip"))
        => LET ref == ConvertFn(fs.inFile, opt, inputJSON, outputJSON, outputPath,
                                OutcomeOf(ret))
           IN  /\ ret = ref.ret
               /\ Produced(fs) = ref.out
               /\ OffsetsOf(fs) = ref.offsets

----------------------------------------------------------------------------
\* a BONJSON object with small-integer values whose first key comes again
\* as its last key
RepeatedKeyDoc(buf) ==
    /\ Len(buf) >= 8
    /\ buf[1] = 154 /\ buf[Len(buf)] = 155
    /\ buf[2] = 129 /\ buf[Len(buf) - 3] = 129
    /\ buf[3] = buf[Len(buf) - 2]
    /\ buf[4] <= 100 /\ buf[Len(buf) - 1] <= 100

\* the value an object holds for a key
ValueAt(v, key) == v.m[CHOOSE i \in 1..Len(v.m) : v.m[i].key = key].val

\* C11: decoding a BONJSON object with a repeated key fails with a
\* duplicate-key error under reject and when -d is absent (exit 1, with
\* that error unless the destination then fails to be written); under
\* keepfirst it succeeds and the object holds the first value of that key;
\* under keeplast it succeeds and the object holds the last.
C11_DuplicateKeys ==
    (Has("decode") /\ ~inputJSON /\ RepeatedKeyDoc(data))
        => IF opt.dupKeyMode = "keepfirst"
           THEN /\ decodeErr = "" /\ value.k = "obj"
                /\ ValueAt(value, <<data[3]>>) = IntV(data[4])
           ELSE IF opt.dupKeyMode = "keeplast"
           THEN /\ decodeErr = "" /\ value.k = "obj"
                /\ ValueAt(value, <<data[3]>>) = IntV(data[Len(data) - 1])
           ELSE /\ decodeErr = "duplicate"
                /\ pc = "exit" => (exitCode = 1 /\ (IOFailed \/ ret.cause = "duplicate"))

\* -d keepfirst b2j on {"a":1,"b":3,"a":2}: "a" is 1 in the JSON written
C11_Witness ==
    /\ pc = "exit" /\ command = "b2j" /\ opt.dupKeyMode = "keepfirst"
    /\ data = <<154, 129, 97, 1, 129, 98, 3, 129, 97, 2, 155>>
    /\ value = ObjV(<<[key |-> <<97>>, val |-> IntV(1)], [key |-> <<98>>, val |-> IntV(3)]>>)
    /\ exitCode = 0

----------------------------------------------------------------------------
\* a JSON text without its whitespace (the strings of the documents here
\* hold no whitespace, quote, colon or bracket)
Strip(t) == SelectSeq(t, LAMBDA b : b \notin {9, 10, 13, 32})

RECURSIVE CountMembers(_)
RECURSIVE CountIn(_, _)
\* how many object members a value holds, at every depth
CountMembers(v) ==
    IF v.k = "arr" THEN CountIn([i \in 1..Len(v.e) |-> v.e[i]], 1)
    ELSE IF v.k = "obj" THEN Len(v.m) + CountIn([i \in 1..Len(v.m) |-> v.m[i].val], 1)
    ELSE 0
CountIn(vs, i) == IF i > Len(vs) THEN 0 ELSE CountMembers(vs[i]) + CountIn(vs, i + 1)

\* no object of the text has a key twice: every "key": of the text is a
\* member of the value
DupFree(t) ==
    /\ WellFormedJSON(t)
    /\ Cardinality({i \in 1..Len(t) : t[i] = 58}) = CountMembers(Unmarshal(t).value)

\* nesting depth of position i of a stripped text
Depth(t, i) ==
    Cardinality({j \in 1..i : t[j] \in {91, 123}}) - Cardinality({j \in 1..i : t[j] \in {93, 125}})

\* positions of the opening quote of each key of a stripped text
KeyStarts(t) ==
    {i \in 1..Len(t) :
        /\ t[i] = 34
        /\ i > 1 /\ t[i - 1] \in {123, 44}
        /\ \E j \in (i + 1)..(Len(t) - 1) :
              /\ t[j] = 34 /\ t[j + 1] = 58
              /\ \A k \in (i + 1)..(j - 1) : t[k] # 34}

KeyAt(t, i) ==
    LET j == CHOOSE j \in (i + 1)..Len(t) : t[j] = 34 /\ \A k \in (i + 1)..(j - 1) : t[k] # 34
    IN  SubSeq(t, i + 1, j - 1)

\* the keys of every object of a stripped text ascend in byte order
KeysAscend(t) ==
    \A i, j \in KeyStarts(t) :
        (i < j /\ Depth(t, i) = Depth(t, j)
            /\ \A k \in i..j : Depth(t, k) >= Depth(t, i))
            => SeqLess(KeyAt(t, i), KeyAt(t, j))

\* the JSON text a finished j2j run wrote, or the text b2j makes of what a
\* finished j2b run wrote
RoundTripText ==
    LET written == IF outputPath = "-" THEN fs.stdout ELSE fs.outFile.content
    IN  IF outputJSON THEN written
        ELSE LET back == ConvertFn(written, [opt EXCEPT !.skipBytes = 0], FALSE, TRUE, "out", "ok")
             IN  IF back.ret = NoErr THEN back.out.file ELSE <<>>

RoundTripRun ==
    /\ pc = "exit" /\ exitCode = 0 /\ command \in {"j2j", "j2b"} /\ outputPath # ""
    /\ DupFree(data)

\* C12 (as amended): for a JSON document without repeated keys, j2j, and
\* j2b followed by b2j, yield a JSON document that parses to the same
\* value: same variants, same array element order, same string bytes, same
\* members in every object.  The keys of every object come out in ascending
\* byte order: the text is the original's (whitespace aside) exactly when
\* the original's keys ascend.
C12_RoundTrip ==
    RoundTripRun
        => /\ WellFormedJSON(RoundTripText)
           /\ Unmarshal(RoundTripText).value = Unmarshal(data).value
           /\ KeysAscend(Strip(RoundTripText))
           /\ (Strip(RoundTripText) = Strip(data)) <=> KeysAscend(Strip(data))

\* j2b then b2j on {"b":{"b":1},"c":["c","a"]}: the same text, array order kept
C12_Witness ==
    /\ RoundTripRun /\ command = "j2b"
    /\ Strip(data) = <<123, 34, 98, 34, 58, 123, 34, 98, 34, 58, 49, 125, 44, 34, 99, 34, 58,
                       91, 34, 99, 34, 44, 34, 97, 34, 93, 125>>
    /\ Strip(RoundTripText) = Strip(data)

\* C12 as stated: the document that comes back has the original's key order
\* too, so that it is the original text, whitespace aside
C12_Original ==
    RoundTripRun => Strip(RoundTripText) = Strip(data)

----------------------------------------------------------------------------
\* the steps of convert this run has taken, in the order taken
ConvertSteps ==
    SelectSeq(steps, LAMBDA x : x \in {"read", "skip", "decode", "validate", "encode",
                                       "write", "nowrite", "report"})

\* the place of a step in convert's text
StepRank(x) ==
    CASE x = "read" -> 1
      [] x = "skip" -> 2
      [] x = "decode" -> 3
      [] x \in {"validate", "encode"} -> 4
      [] x \in {"write", "nowrite"} -> 5
      [] x = "report" -> 6

LastStep == ConvertSteps[Len(ConvertSteps)]

Returned == pc \in {"return", "exit"} /\ Has("convert")

InputErrors ==
    {"reading input", "skip value exceeds input size", "input is empty", "invalid JSON"}

EncodeErrors == {"encoding JSON", "encoding BONJSON"}

WriteErrors == {"creating output file", "writing output"}

\* C13 (as amended): within one convert call the steps read, skip, decode,
\* encode, write, report are taken in that order, each at most once.  An
\* input error or an output error ends the call at the step where it
\* occurs.  In a conversion a binary decode error is returned only by the
\* report step, after the write has completed; in a validate-only call it
\* is returned right after the decode, with no encode and no write.
C13_StepOrder ==
    /\ \A i, j \in 1..Len(ConvertSteps) :
          i < j => StepRank(ConvertSteps[i]) < StepRank(ConvertSteps[j])
    /\ \A i \in 1..Len(ConvertSteps) :
          i > 1 => StepRank(ConvertSteps[i - 1]) = StepRank(ConvertSteps[i]) - 1
    /\ (Has("encode") /\ EncodeValue(value, outputJSON, opt.nanInfMode).err # "")
          => /\ LastStep = "encode"
             /\ Returned => ret.kind \in EncodeErrors
    /\ Returned =>
          /\ ret.kind = "reading input" => LastStep = "read"
          /\ ret.kind \in {"skip value exceeds input size", "input is empty"} => LastStep = "skip"
          /\ ret.kind = "invalid JSON" => LastStep = "decode"
          /\ ret.kind \in EncodeErrors => LastStep = "encode"
          /\ ret.kind \in WriteErrors => LastStep = "write"
          /\ ret.kind = "decoding BONJSON"
                => /\ LastStep = "report" /\ Has("write") /\ decodeErr # ""
                   /\ ~IsValidateOnly(outputPath)
                   /\ (IF outputPath = "-" THEN fs.stdout ELSE fs.outFile.content) = output
          /\ ret.kind = "invalid BONJSON"
                => /\ LastStep = "validate" /\ decodeErr # ""
                   /\ IsValidateOnly(outputPath)
                   /\ ~Has("encode") /\ ~Has("write")
          /\ ret.kind = "" => LastStep \in {"validate", "report"}

\* b2j on a truncated document: the error comes back after the write
C13_Witness ==
    /\ pc = "exit" /\ command = "b2j" /\ ret.kind = "decoding BONJSON"
    /\ ConvertSteps = <<"read", "skip", "decode", "encode", "write", "report">>
    /\ fs.outFile.content = output /\ Len(output) > 0

\* C13 as stated: a binary decode error reaches the caller only after the
\* write step has completed
C13_Original ==
    (Returned /\ ~inputJSON /\ ret.cause = decodeErr /\ decodeErr # ""
        /\ ret.kind \in {"decoding BONJSON", "invalid BONJSON"})
        => Has("write")

----------------------------------------------------------------------------
\* the request of this run succeeded in full: the source was read, the skip
\* left a document, the document decoded without an error that counts,
\* and, unless only validation was asked for, it was encoded and the
\* destination holds the encoding
FullySucceeded ==
    /\ Has("convert") /\ Has("skip")
    /\ SkipResult(fs.inFile, opt.skipBytes).err = NoErr
    /\ IF inputJSON THEN WellFormedJSON(data) ELSE DecodeBONJSON(data, opt).err = ""
    /\ \/ outputPath = ""
       \/ /\ EncodeValue(value, outputJSON, opt.nanInfMode).err = ""
          /\ Has("write")
          /\ IF outputPath = "-" THEN fs.stdout = output
             ELSE fs.outFile = [exists |-> TRUE, content |-> output]

ErrorLines == SelectSeq(fs.stderr, LAMBDA l : l.kind = "error")

\* C14 (as amended): the process exits 0 exactly when the request fully
\* succeeded.  When convert fails, the exit status is 1 and standard error
\* ends with exactly one error line, which names the failure; the only
\* other line there can be is the end offset, printed before it when -e
\* was given and a binary source was decoded.
C14_ExitStatus ==
    pc = "exit"
        => /\ exitCode \in {0, 1}
           /\ exitCode = 0 <=> FullySucceeded
           /\ (Has("convert") /\ exitCode = 0) => fs.stderr = OffsetsOf(fs)
           /\ (Has("convert") /\ exitCode = 1)
                 => /\ ret.kind # ""
                    /\ ErrorLines = <<Line("error", 0, ret.kind)>>
                    /\ fs.stderr = OffsetsOf(fs) \o ErrorLines
                    /\ Len(OffsetsOf(fs)) =
                          IF opt.printEndOffset /\ ~inputJSON /\ Has("decode") THEN 1 ELSE 0

\* `bonbon -e b` on a truncated document: the offset line, then the error line
C14_Witness ==
    /\ pc = "exit" /\ command = "b" /\ exitCode = 1 /\ opt.printEndOffset
    /\ decodeErr = "truncated"
    /\ Len(fs.stderr) = 2 /\ fs.stderr[2] = Line("error", 0, "invalid BONJSON")

\* C14 as stated: a failing request leaves exactly one line on standard error
C14_Original ==
    (pc = "exit" /\ Has("convert"))
        => /\ exitCode = 0 <=> FullySucceeded
           /\ exitCode # 0 => Len(fs.stderr) = 1

----------------------------------------------------------------------------
\* every byte of buf is a space, a tab, a line feed or a carriage return
\* (the empty buffer included)
AllWhitespace(buf) == \A i \in 1..Len(buf) : buf[i] \in {32, 9, 10, 13}

\* C15: detectJSON is total: on every buffer, the empty one included, it
\* returns one of its two decisions and reads no byte outside the buffer;
\* the empty buffer and a buffer of whitespace alone are taken for JSON.
C15_DetectTotal ==
    pc = "detected"
        => /\ isJSON \in BOOLEAN
           /\ detectReads(data) \subseteq 1..Len(data)
           /\ AllWhitespace(data) => (isJSON /\ detectReads(data) = 1..Len(data))

\* tab, carriage return, line feed: read to the end and taken for JSON
C15_Witness ==
    /\ pc = "detected" /\ data = <<9, 13, 10>> /\ isJSON = TRUE
    /\ detectReads(data) = {1, 2, 3}

----------------------------------------------------------------------------
Prefix(buf, k) == SubSeq(buf, 1, k)

\* what may follow a prefix: nothing, or one or two bytes of the alphabet
Tails == SeqsOf(DetAlphabet, 0) \cup SeqsOf(DetAlphabet, 1) \cup SeqsOf(DetAlphabet, 2)

\* the length of the run of whitespace buf starts with
LeadWS(buf) ==
    Cardinality({i \in 1..Len(buf) : \A j \in 1..i : buf[j] \in {32, 9, 10, 13}})

\* the length of the prefix of buf that decides: the leading whitespace and
\* the byte after it, then three bytes after 't' or 'n', the whitespace and
\* one byte after '{' or '[', one byte after '"', '-' or a digit; one byte
\* past the end when buf ends within it
Window(buf) ==
    LET w == LeadWS(buf)
    IN  IF w = Len(buf) THEN Len(buf) + 1
        ELSE LET first == buf[w + 1]
             IN  IF first \in {116, 110} THEN w + 4
                 ELSE IF first \in {123, 91}
                 THEN w + 1 + LeadWS(SubSeq(buf, w + 2, Len(buf))) + 1
                 ELSE IF first = 34 \/ first = 45 \/ (first >= 48 /\ first <= 57) THEN w + 2
                 ELSE w + 1

\* C16 (as amended): the lookahead of detectJSON is bounded by a constant
\* only past the whitespace it skips.  It reads the leading whitespace, the
\* first byte after it and then at most three bytes, or, after '{' or '[',
\* a second run of whitespace and one byte; every buffer that agrees with
\* this one on that window gets this one's decision.
C16_Lookahead ==
    pc = "detected"
        => /\ detectReads(data) \subseteq 1..Window(data)
           /\ Window(data) <= LeadWS(data) + 4
                 + (IF LeadWS(data) < Len(data)
                    THEN LeadWS(SubSeq(data, LeadWS(data) + 2, Len(data))) ELSE 0)
           /\ Len(data) >= Window(data)
                 => \A t \in Tails : detectJSON(Prefix(data, Window(data)) \o t) = isJSON

\* six spaces and '{', two spaces, '}': ten bytes decide, whatever follows
C16_Witness ==
    /\ pc = "detected" /\ data = Rep(32, MaxLead) \o <<123, 32, 32, 125>>
    /\ Window(data) = Len(data) /\ isJSON = TRUE
    /\ detectJSON(data \o <<0, 153>>) = TRUE
    /\ detectJSON(Prefix(data, Len(data) - 1) \o <<0>>) = FALSE

\* C16 as stated, for the windows of up to MaxLead bytes: some K decides
\* this buffer, so that every buffer with the same first K bytes gets the
\* same decision
C16_Original ==
    pc = "detected"
        => \E K \in 0..MaxLead :
              Len(data) >= K
                  => \A t \in Tails : detectJSON(Prefix(data, K) \o t) = isJSON

----------------------------------------------------------------------------
\* main refused the arguments: one error line, no file read or written
Rejected ==
    /\ Has("argerror") /\ pc = "exit" /\ exitCode = 1
    /\ ~Has("convert") /\ ~Has("read")
    /\ Untouched(fs) /\ Len(fs.stderr) = 1

\* convert is past its decode step and the decode left it going
PastDecode ==
    /\ Has("decode") /\ pc # "decoded"
    /\ ~(pc \in {"return", "exit"} /\ ret.kind = "invalid JSON")

\* C17 (as amended): the command fixes the source form and the destination
\* form.  j and b validate only and are refused before any I/O when an
\* output argument is given; j2b, j2j, b2j and b2b are refused before any
\* I/O when it is missing.  With an output argument that is not the empty
\* string they go on to encode, in the form the command names, and to
\* write; with the empty string they validate only, like j and b.
C17_CommandForms ==
    /\ (command \in {"j", "b"} /\ Has("argc=3")) => Rejected
    /\ (command \in {"j2b", "j2j", "b2j", "b2b"} /\ Has("argc=2")) => Rejected
    /\ (command \in {"j", "b"} /\ Has("argc=2"))
          => /\ Has("convert") /\ outputPath = ""
             /\ inputJSON = (command = "j")
             /\ ~Has("encode") /\ ~Has("write") /\ Untouched(fs)
             /\ PastDecode => Has("validate")
    /\ (command \in {"j2b", "j2j", "b2j", "b2b"} /\ Has("argc=3"))
          => /\ Has("convert")
             /\ inputJSON = (command \in {"j2b", "j2j"})
             /\ Has("decode") => IF inputJSON THEN decodeErr = "" /\ value = Unmarshal(data).value
                                 ELSE value = DecodeBONJSON(data, opt).value
             /\ PastDecode =>
                   IF outputPath # ""
                   THEN LET r == EncodeValue(value, command \in {"j2j", "b2j"}, opt.nanInfMode)
                        IN  /\ Has("encode") /\ ~Has("validate")
                            /\ r.err = "" => /\ output = r.out
                                             /\ pc = "write" \/ Has("write")
                   ELSE /\ Has("validate") /\ ~Has("encode") /\ ~Has("write")
                        /\ Untouched(fs)

\* `bonbon b2j in -`: the JSON encoding of the value on standard output
C17_Witness ==
    /\ pc = "exit" /\ exitCode = 0 /\ command = "b2j" /\ Has("argc=3") /\ outputPath = "-"
    /\ Has("encode") /\ Has("write")
    /\ output = MarshalIndent(value).out /\ fs.stdout = output

\* C17 as stated: with an output argument, whatever it is, the four
\* converting commands go on to encode
C17_Original ==
    (command \in {"j2b", "j2j", "b2j", "b2b"} /\ Has("argc=3") /\ PastDecode)
        => Has("encode")

----------------------------------------------------------------------------
\* the input of this j2b run was taken for BONJSON and its decode fails
\* with an error the flags do not drop
AutoDecodeFailed ==
    /\ Has("autodecode") /\ ~isJSON
    /\ DecodeBONJSON(data, opt).err # ""

\* the JSON text of the value decoded before the error
AutoPartial == MarshalIndent(DecodeBONJSON(data, opt).value)

\* C18: in j2b, when the input is taken for BONJSON and its decode fails,
\* the value decoded before the error is still encoded and written to the
\* destination, and the failure is reported afterwards.
C18_AutoPartialOutput ==
    (pc = "exit" /\ AutoDecodeFailed /\ AutoPartial.err = "")
        => /\ exitCode = 1
           /\ Has("autowrite")
           /\ ret.kind \notin WriteErrors
                 => (IF outputPath \in {"", "-"} THEN fs.stdout ELSE fs.outFile.content)
                       = AutoPartial.out \o (IF outputPath = "" THEN <<10>> ELSE <<>>)

\* what j2b does instead: the request fails whole, nothing is written
AutoAtomic ==
    (pc \in {"return", "exit"} /\ AutoDecodeFailed)
        => /\ ret.kind = "converting BONJSON to JSON"
           /\ ~Has("autowrite") /\ Untouched(fs) /\ output = <<>>

----------------------------------------------------------------------------
\* the first byte of buf that is not whitespace, -1 if there is none
FirstByte(buf) == IF LeadWS(buf) < Len(buf) THEN buf[LeadWS(buf) + 1] ELSE -1

\* the bytes b1 b2 b3 stand right after the first non-whitespace byte
Continues(buf, lit) ==
    /\ Len(buf) >= LeadWS(buf) + 4
    /\ SubSeq(buf, LeadWS(buf) + 2, LeadWS(buf) + 4) = lit

\* C19: when the first non-whitespace byte is 't', detectJSON says JSON
\* exactly when the next three bytes are there and are 'r', 'u', 'e'; when
\* it is 'n', exactly when they are 'u', 'l', 'l'.  No byte after those
\* three changes the decision.
C19_LiteralStart ==
    pc = "detected"
        => /\ FirstByte(data) = 116 => (isJSON <=> Continues(data, <<114, 117, 101>>))
           /\ FirstByte(data) = 110 => (isJSON <=> Continues(data, <<117, 108, 108>>))
           /\ (FirstByte(data) \in {116, 110} /\ Len(data) >= LeadWS(data) + 4)
                 => \A t \in Tails :
                       detectJSON(Prefix(data, LeadWS(data) + 4) \o t) = isJSON

\* a space, then "true"
C19_Witness ==
    /\ pc = "detected" /\ data = <<32, 116, 114, 117, 101>> /\ isJSON = TRUE
    /\ detectJSON(<<32, 116, 114, 117>>) = FALSE
    /\ detectJSON(<<110, 117, 108, 108, 1>>) = TRUE

----------------------------------------------------------------------------
\* the index of the first byte after the opening byte and the whitespace
\* that follows it (one past the end if the buffer ends there)
AfterOpen(buf) ==
    LeadWS(buf) + 2 + LeadWS(SubSeq(buf, LeadWS(buf) + 2, Len(buf)))

\* the bytes a JSON value starts with: '{' '[' '"' 't' 'f' 'n' '-' '0'..'9'
ValueStart == {123, 91, 34, 116, 102, 110, 45} \cup 48..57

\* C20: when the first non-whitespace byte is '{' or '[', detectJSON skips
\* the whitespace after it and says BONJSON if the buffer ends there;
\* otherwise after '{' it says JSON exactly when the next byte is '"' or
\* '}', and after '[' exactly when the next byte starts a JSON value or is
\* ']'.
C20_ContainerOpen ==
    (pc = "detected" /\ FirstByte(data) \in {123, 91})
        => IF AfterOpen(data) > Len(data) THEN isJSON = FALSE
           ELSE IF FirstByte(data) = 123
           THEN isJSON <=> data[AfterOpen(data)] \in {34, 125}
           ELSE isJSON <=> data[AfterOpen(data)] \in ValueStart \cup {93}

\* '[', CR, space, tab, '-', 0x01: JSON by the byte after the whitespace
C20_Witness ==
    /\ pc = "detected" /\ data = <<91, 13, 32, 9, 45, 1>> /\ isJSON = TRUE
    /\ AfterOpen(data) = 5
    /\ detectJSON(<<91, 13, 32, 9>>) = FALSE
    /\ detectJSON(<<123, 13, 32, 9, 45, 1>>) = FALSE

----------------------------------------------------------------------------
\* the bytes that may follow the first digit of a JSON document: a digit,
\* '.', 'e', 'E', space, tab, LF, CR, ',', ']', '}'
AfterDigit == 48..57 \cup {46, 101, 69, 32, 9, 10, 13, 44, 93, 125}

\* C21: when the first non-whitespace byte is a decimal digit, detectJSON
\* says BONJSON if it is the last byte of the buffer, and otherwise says
\* JSON exactly when the one byte after it is a digit, '.', 'e', 'E',
\* whitespace, ',', ']' or '}'.
C21_DigitStart ==
    (pc = "detected" /\ FirstByte(data) \in 48..57)
        => IF Len(data) = LeadWS(data) + 1 THEN isJSON = FALSE
           ELSE isJSON <=> data[LeadWS(data) + 2] \in AfterDigit

\* "5E": JSON by the exponent marker; "5" alone and "5+" are BONJSON
C21_Witness ==
    /\ pc = "detected" /\ data = <<53, 69>> /\ isJSON = TRUE
    /\ detectJSON(<<53>>) = FALSE
    /\ detectJSON(<<53, 43>>) = FALSE

----------------------------------------------------------------------------
\* what the decoder itself says of this run's buffer
OwnDecode == Decode(data, Modes(opt))

\* C22: allowTrailing drops the trailing-data error and no other.  With -t
\* a binary decode that fails for another reason still fails the request;
\* the trailing-data error is made up only when the decoder itself
\* reported no error and stopped before the end of the buffer.
C22_TrailingOnly ==
    (Has("decode") /\ ~inputJSON)
        => /\ byteCount = OwnDecode.byteCount
           /\ OwnDecode.err # ""
                 => /\ OwnDecode.err # "trailing"
                    /\ decodeErr = OwnDecode.err
                    /\ pc = "exit" => exitCode = 1
           /\ decodeErr = "trailing"
                 => /\ OwnDecode.err = "" /\ byteCount < Len(data)
                    /\ ~opt.allowTrailing
           /\ (OwnDecode.err = "" /\ byteCount < Len(data))
                 => decodeErr = IF opt.allowTrailing THEN "" ELSE "trailing"
           /\ (OwnDecode.err = "" /\ byteCount = Len(data)) => decodeErr = ""

\* -t, and a decode that fails before the end of the buffer: exit 1
C22_Witness ==
    /\ pc = "exit" /\ ~inputJSON /\ opt.allowTrailing
    /\ decodeErr \notin {"", "trailing"} /\ byteCount < Len(data)
    /\ exitCode = 1

----------------------------------------------------------------------------
\* convert returned an error from a step before the write
FailedBeforeWrite == Returned /\ ret.kind \in InputErrors \cup EncodeErrors

\* C23: the destination is touched in the write step alone.  No other step
\* changes the destination file or standard output, and when convert fails
\* before the write (unreadable source, skip past the end, empty input,
\* JSON syntax error, encoder error) the destination file is as it was,
\* not created, not truncated, not written, and standard output is empty.
C23_DestinationFrame ==
    /\ [][(fs'.outFile # fs.outFile \/ fs'.stdout # fs.stdout)
             => (pc = "write" /\ Len(output) > 0 /\ ~IsValidateOnly(outputPath))]_vars
    /\ [](FailedBeforeWrite => (~Has("write") /\ Untouched(fs)))
    /\ []((Returned /\ ret.kind = "invalid JSON") => (output = <<>> /\ Untouched(fs)))

\* j2b on text that is not JSON, over a file an earlier run left: the file
\* is still the old one
C23_Witness ==
    /\ pc = "exit" /\ command = "j2b" /\ outputPath = "out"
    /\ ret.kind = "invalid JSON" /\ exitCode = 1
    /\ Len(data) > 1
    /\ fs.outFile = OldFile /\ fs.stdout = <<>>

----------------------------------------------------------------------------
\* runs of one and two whitespace bytes, and the long run of spaces
Pads ==
    SeqsOf({32, 9, 13, 10}, 1) \cup SeqsOf({32, 9, 13, 10}, 2) \cup {Rep(32, MaxLead)}

\* C24: whitespace put before a buffer does not change what detectJSON
\* says of it, whether the buffer is JSON or BONJSON.
C24_LeadingWhitespace ==
    pc = "detected" => \A w \in Pads : detectJSON(w \o data) = isJSON

\* a BONJSON array behind tab and line feed is still BONJSON
C24_Witness ==
    /\ pc = "detected" /\ data = <<153, 1, 155>> /\ isJSON = FALSE
    /\ detectJSON(<<9, 10>> \o data) = FALSE
    /\ detectJSON(<<13, 32, 116, 114, 117, 101>>) = TRUE

====
